---- MODULE Spec2Model ----
(***************************************************************************)
(* A model of the notebook front-end: the output area model, the notebook  *)
(* model (cell list, active cell, execution, save), the notebook widget's  *)
(* cell reconciler and the (de)serializer.                                 *)
(*                                                                         *)
(* Strings are sequences of one-character strings, so that concatenation,  *)
(* trimming and joining are computed as the code computes them.  List      *)
(* indices are 0-based as in the code; ListGet and friends translate to    *)
(* TLA+'s 1-based sequences.                                               *)
(***************************************************************************)
EXTENDS Integers, Sequences, FiniteSets, TLC

VARIABLES
    area,             \* the stand-alone OutputAreaModel: [outputs, clearNext, disposed]
    areaOp,           \* history: the last call made on `area` and the state it found
    heap,             \* every cell model ever created, by identity (index)
    cells,            \* NotebookModel._cells: the list of cell identities
    activeCellIndex,  \* NotebookModel.activeCellIndex
    mode,             \* NotebookModel.mode
    readOnly,         \* NotebookModel.readOnly
    dirty,            \* NotebookModel.dirty
    session,          \* NotebookModel.session: "none", "live" or "disposed"
    metadata,         \* NotebookModel.metadata
    widgets,          \* every cell widget ever constructed: [model, disposed]
    children,         \* the cells layout's child list (widget identities)
    executions,       \* the kernel futures returned by kernel.execute
    saves,            \* the save() calls in progress or finished
    persisted,        \* the contents the contents manager was asked to save
    lastOp,           \* history: the last notebook operation and the state it found
    isDisposed,       \* NotebookModel.isDisposed (_cells === null)
    doc,              \* the document handed to deserialize
    serialized,       \* the result of serialize, or NoDoc
    cut,              \* NotebookToolbar._cut: the cells that were cut
    copied,           \* NotebookToolbar._copied: the indices that were copied,
                      \* each with the cell it held at the copy (history)
    editor            \* a CodeMirrorWidget with its editor model and document

vars == <<area, areaOp, heap, cells, activeCellIndex, mode, readOnly, dirty,
          session, metadata, widgets, children, executions, saves, persisted,
          lastOp, isDisposed, doc, serialized, cut, copied, editor>>

outputAreaVars == <<area, areaOp>>
notebookVars == <<heap, cells, activeCellIndex, mode, readOnly, dirty, session,
                  metadata, widgets, children, executions, saves, persisted, lastOp,
                  isDisposed>>
documentVars == <<doc, serialized>>
toolbarVars == <<cut, copied>>
editorVars == <<editor>>

-----------------------------------------------------------------------------
(* Bounds of the model.                                                    *)

MaxOutputs == 3      \* longest output list explored
MaxTextLen == 3      \* longest stream text explored
MaxCells == 3        \* cell models created in one behaviour
MaxMessages == 2     \* I/O messages delivered to one execution
MaxExecutions == 2   \* execute requests issued in one behaviour
MaxSaves == 2        \* save() calls made in one behaviour
MaxToolbarCells == 4 \* cell models once the toolbar has created its own
MaxWidgets == 4      \* cell widgets built in one behaviour of the toolbar

MaxDocCells == 2     \* cells of a document handed to deserialize

-----------------------------------------------------------------------------
(* Helpers.                                                                *)

Min(a, b) == IF a < b THEN a ELSE b
Max(a, b) == IF a > b THEN a ELSE b

Range(s) == { s[k] : k \in DOMAIN s }

RECURSIVE FoldLeft(_, _, _)
FoldLeft(Op(_, _), acc, s) ==
    IF s = <<>> THEN acc ELSE FoldLeft(Op, Op(acc, Head(s)), Tail(s))

-----------------------------------------------------------------------------
(* ObservableList<T> (phosphor-observablelist), as the code uses it.       *)
(* Indices are 0-based; a negative index addresses from the end.           *)

ListNorm(list, i) == IF i < 0 THEN i + Len(list) ELSE i

ListCheck(list, i) == i >= 0 /\ i < Len(list)

\* get(index): the item, defined only when ListHas holds (else `undefined`).
ListHas(list, i) == ListCheck(list, ListNorm(list, i))
ListGet(list, i) == list[ListNorm(list, i) + 1]

\* insert(index, item) clamps the index into [0, length].
ListClamp(list, i) == Max(0, Min(ListNorm(list, i), Len(list)))
ListInsertAt(list, j, item) ==
    SubSeq(list, 1, j) \o <<item>> \o SubSeq(list, j + 1, Len(list))

ListRemoveAt(list, j) == SubSeq(list, 1, j) \o SubSeq(list, j + 2, Len(list))

ListSetAt(list, j, item) == [list EXCEPT ![j + 1] = item]

ListMove(list, i, j) == ListInsertAt(ListRemoveAt(list, i), j, list[i + 1])

\* indexOf(item): the first index holding item, or -1.
ListIndexOf(list, item) ==
    IF item \in Range(list)
    THEN (CHOOSE k \in DOMAIN list :
            list[k] = item /\ \A m \in 1 .. k - 1 : list[m] # item) - 1
    ELSE -1

-----------------------------------------------------------------------------
(* Outputs (nbformat IOutput).  Every output carries output_type; a stream *)
(* carries name and text; the payload of the other kinds is kept in text.  *)

KnownOutputTypes == {"stream", "execute_result", "display_data", "error"}

Stream(name, text) == [output_type |-> "stream", name |-> name, text |-> text]
Other(type, payload) == [output_type |-> type, name |-> "", text |-> payload]

isStream(output) == output.output_type = "stream"

\* The outputs the model feeds to add: streams on two channels, the three
\* other known kinds, and one kind the output area does not know.
SampleOutputs ==
    { Stream("stdout", <<"a">>), Stream("stdout", <<"b">>),
      Stream("stderr", <<"b">>),
      Other("execute_result", <<"r">>), Other("display_data", <<"d">>),
      Other("error", <<"e">>), Other("status", <<"i">>) }

-----------------------------------------------------------------------------
(* OutputAreaModel.                                                        *)

NewOutputArea == [outputs |-> <<>>, clearNext |-> FALSE, disposed |-> FALSE]

\* clear(wait)
OutputAreaClear(a, wait) ==
    IF wait THEN [a EXCEPT !.clearNext = TRUE]
            ELSE [a EXCEPT !.outputs = <<>>]

\* A plausible slip: the stream test ignores the channel name.
OutputAreaAdd_AnyStream(a, output) ==
    LET a1 == IF a.clearNext
              THEN [OutputAreaClear(a, FALSE) EXCEPT !.clearNext = FALSE]
              ELSE a
    IN  IF /\ isStream(output)
           /\ ListHas(a1.outputs, -1)
           /\ isStream(ListGet(a1.outputs, -1))
        THEN [a1 EXCEPT !.outputs =
                ListSetAt(a1.outputs, Len(a1.outputs) - 1,
                          [output EXCEPT !.text =
                              ListGet(a1.outputs, -1).text \o output.text])]
        ELSE IF output.output_type \in KnownOutputTypes
             THEN [a1 EXCEPT !.outputs = Append(a1.outputs, output)]
             ELSE a1

\* A plausible slip: the deferred flag is never reset.
OutputAreaAdd_KeepFlag(a, output) ==
    LET a1 == IF a.clearNext THEN OutputAreaClear(a, FALSE) ELSE a
    IN  IF /\ isStream(output)
           /\ ListHas(a1.outputs, -1)
           /\ isStream(ListGet(a1.outputs, -1))
           /\ output.name = ListGet(a1.outputs, -1).name
        THEN [a1 EXCEPT !.outputs =
                ListSetAt(a1.outputs, Len(a1.outputs) - 1,
                          [output EXCEPT !.text =
                              ListGet(a1.outputs, -1).text \o output.text])]
        ELSE IF output.output_type \in KnownOutputTypes
             THEN [a1 EXCEPT !.outputs = Append(a1.outputs, output)]
             ELSE a1

\* A plausible slip: add appends an output of any kind.
OutputAreaAdd_NoFilter(a, output) ==
    LET a1 == IF a.clearNext
              THEN [OutputAreaClear(a, FALSE) EXCEPT !.clearNext = FALSE]
              ELSE a
    IN  IF /\ isStream(output)
           /\ ListHas(a1.outputs, -1)
           /\ isStream(ListGet(a1.outputs, -1))
           /\ output.name = ListGet(a1.outputs, -1).name
        THEN [a1 EXCEPT !.outputs =
                ListSetAt(a1.outputs, Len(a1.outputs) - 1,
                          [output EXCEPT !.text =
                              ListGet(a1.outputs, -1).text \o output.text])]
        ELSE [a1 EXCEPT !.outputs = Append(a1.outputs, output)]

\* add(output)
OutputAreaAdd(a, output) ==
    LET a1 == IF a.clearNext
              THEN [OutputAreaClear(a, FALSE) EXCEPT !.clearNext = FALSE]
              ELSE a
    IN  IF /\ isStream(output)
           /\ ListHas(a1.outputs, -1)
           /\ isStream(ListGet(a1.outputs, -1))
           /\ output.name = ListGet(a1.outputs, -1).name
        THEN [a1 EXCEPT !.outputs =
                ListSetAt(a1.outputs, Len(a1.outputs) - 1,
                          [output EXCEPT !.text =
                              ListGet(a1.outputs, -1).text \o output.text])]
        ELSE IF output.output_type \in KnownOutputTypes
             THEN [a1 EXCEPT !.outputs = Append(a1.outputs, output)]
             ELSE a1

\* The bounds on what add may build.
WithinOutputBounds(a) ==
    /\ Len(a.outputs) <= MaxOutputs
    /\ \A k \in DOMAIN a.outputs : Len(a.outputs[k].text) <= MaxTextLen


\* dispose()
OutputAreaDispose(a) ==
    IF a.disposed THEN a
    ELSE [a EXCEPT !.outputs = <<>>, !.disposed = TRUE]

-----------------------------------------------------------------------------
(* Cell models.  A cell is a record on the heap; its identity is its heap  *)
(* index.  Fields a variant does not have keep their defaults.             *)
(* executionCount 0 stands for "no execution count".                       *)
(* connected records that the stateChanged signal of the cell's editor    *)
(* is connected to the notebook's onEditorChanged.                         *)
(* watched records that the cell's own stateChanged signal is connected   *)
(* to the notebook's _onCellStateChanged.                                  *)

CellTypes == {"code", "markdown", "raw"}

DefaultCell(type, ro) ==
    [ type |-> type, text |-> <<>>, tags |-> <<>>, name |-> "",
      trusted |-> FALSE, active |-> FALSE, selected |-> FALSE,
      readOnly |-> ro, disposed |-> FALSE, prompt |-> "",
      output |-> NewOutputArea, executionCount |-> 0,
      collapsed |-> FALSE, scrolled |-> FALSE,
      rendered |-> TRUE, format |-> "", connected |-> FALSE,
      watched |-> FALSE ]

\* CellModel.dispose(): disposes the input and, for a code cell, the output.
DisposeCell(hp, id) ==
    [hp EXCEPT ![id] = [@ EXCEPT !.disposed = TRUE,
                                 !.output = OutputAreaDispose(@)]]

RECURSIVE DisposeCells(_, _)
DisposeCells(hp, ids) ==
    IF ids = <<>> THEN hp
    ELSE DisposeCells(DisposeCell(hp, Head(ids)), Tail(ids))

\* createCodeCell(source?): src = 0 stands for "no source".
\* The editor is connected last, after the source's text has been copied.
CreateCodeCell(hp, ro, src) ==
    LET fresh == [DefaultCell("code", ro) EXCEPT !.trusted = TRUE,
                                                  !.connected = TRUE]
    IN  IF src = 0 THEN fresh
        ELSE LET s == hp[src]
                 common == [fresh EXCEPT !.trusted = s.trusted,
                                         !.text = s.text,
                                         !.tags = s.tags]
             IN  IF s.type = "code"
                 THEN [common EXCEPT !.collapsed = s.collapsed,
                                     !.scrolled = s.scrolled,
                                     !.output.outputs = s.output.outputs]
                 ELSE common

\* A plausible slip: the markdown factory never copies rendered.
CreateMarkdownCell_RenderedNotCloned(hp, ro, src) ==
    LET fresh == [DefaultCell("markdown", ro) EXCEPT !.trusted = TRUE,
                                                      !.connected = TRUE]
    IN  IF src = 0 THEN fresh
        ELSE LET s == hp[src]
             IN  [fresh EXCEPT !.trusted = s.trusted,
                               !.text = s.text,
                               !.tags = s.tags]

\* createMarkdownCell(source?)
CreateMarkdownCell(hp, ro, src) ==
    LET fresh == [DefaultCell("markdown", ro) EXCEPT !.trusted = TRUE,
                                                      !.connected = TRUE]
    IN  IF src = 0 THEN fresh
        ELSE LET s == hp[src]
                 common == [fresh EXCEPT !.trusted = s.trusted,
                                         !.text = s.text,
                                         !.tags = s.tags]
             IN  IF s.type = "markdown"
                 THEN [common EXCEPT !.rendered = s.rendered]
                 ELSE common

\* A plausible slip: the raw-cell factory forgets to connect the editor.
CreateRawCell_NotConnected(hp, ro, src) ==
    LET fresh == [DefaultCell("raw", ro) EXCEPT !.trusted = TRUE]
    IN  IF src = 0 THEN fresh
        ELSE LET s == hp[src]
                 common == [fresh EXCEPT !.trusted = s.trusted,
                                         !.text = s.text,
                                         !.tags = s.tags]
             IN  IF s.type = "raw"
                 THEN [common EXCEPT !.format = s.format]
                 ELSE common

\* createRawCell(source?)
CreateRawCell(hp, ro, src) ==
    LET fresh == [DefaultCell("raw", ro) EXCEPT !.trusted = TRUE,
                                                  !.connected = TRUE]
    IN  IF src = 0 THEN fresh
        ELSE LET s == hp[src]
                 common == [fresh EXCEPT !.trusted = s.trusted,
                                         !.text = s.text,
                                         !.tags = s.tags]
             IN  IF s.type = "raw"
                 THEN [common EXCEPT !.format = s.format]
                 ELSE common

CreateCell(hp, ro, type, src) ==
    CASE type = "code" -> CreateCodeCell(hp, ro, src)
      [] type = "markdown" -> CreateMarkdownCell(hp, ro, src)
      [] OTHER -> CreateRawCell(hp, ro, src)

-----------------------------------------------------------------------------
(* The part of the state a list change reaches: the model's handler        *)
(* (_onCellsChanged) and the widget's handler (onCellsChanged) run inside  *)
(* the mutating call, in the order they were connected.                    *)

World ==
    [ heap |-> heap, cells |-> cells, activeCellIndex |-> activeCellIndex,
      widgets |-> widgets, children |-> children, executions |-> executions,
      mode |-> mode, threw |-> FALSE ]

\* A list change event.  oldValue and newValue are sequences of cells: one
\* cell for Add, Remove, Move and Set, a batch for Replace.
Change(type, oldIndex, oldValue, newIndex, newValue) ==
    [ type |-> type, oldIndex |-> oldIndex, oldValue |-> oldValue,
      newIndex |-> newIndex, newValue |-> newValue ]

\* The last index at which the loop of the setter meets the cell.
LastIndexOf(list, item) ==
    (CHOOSE k \in DOMAIN list :
        list[k] = item /\ \A m \in k + 1 .. Len(list) : list[m] # item) - 1

\* A plausible slip: the setter stores the index and marks the cell at it,
\* without clearing the flag of the cell that was active.
SetActiveCellIndex_NoClear(w, value) ==
    LET v == Min(Max(value, 0), Len(w.cells) - 1)
    IN  [w EXCEPT !.activeCellIndex = v,
                  !.heap = [id \in DOMAIN w.heap |->
                      IF id \in Range(w.cells) /\ LastIndexOf(w.cells, id) = v
                      THEN [w.heap[id] EXCEPT !.active = TRUE]
                      ELSE w.heap[id]]]

\* set activeCellIndex(value)
SetActiveCellIndex(w, value) ==
    LET v == Min(Max(value, 0), Len(w.cells) - 1)
    IN  [w EXCEPT !.activeCellIndex = v,
                  !.heap = [id \in DOMAIN w.heap |->
                      IF id \in Range(w.cells)
                      THEN [w.heap[id] EXCEPT
                              !.active = (LastIndexOf(w.cells, id) = v)]
                      ELSE w.heap[id]]]

\* A plausible slip: a removed cell is left undisposed.
ModelOnCellsChanged_KeepRemoved(w, change) ==
    CASE change.type = "Add" ->
           SetActiveCellIndex(
               [w EXCEPT !.heap[change.newValue[1]].watched = TRUE],
               change.newIndex)
      [] change.type = "Remove" ->
           SetActiveCellIndex(w, Min(change.oldIndex, Len(w.cells) - 1))
      [] change.type = "Replace" ->
           [w EXCEPT !.heap = DisposeCells(w.heap, change.oldValue)]
      [] OTHER -> w

\* NotebookModel._onCellsChanged
ModelOnCellsChanged(w, change) ==
    CASE change.type = "Add" ->
           SetActiveCellIndex(
               [w EXCEPT !.heap[change.newValue[1]].watched = TRUE],
               change.newIndex)
      [] change.type = "Remove" ->
           SetActiveCellIndex(
               [w EXCEPT !.heap = DisposeCell(w.heap, change.oldValue[1])],
               Min(change.oldIndex, Len(w.cells) - 1))
      [] change.type = "Replace" ->
           [w EXCEPT !.heap = DisposeCells(w.heap, change.oldValue)]
      [] OTHER -> w

\* A plausible slip: the handler stores the index without going through
\* the setter, so the cells' active flags are not refreshed.
OnCellStateChanged_IndexOnly(w, id, name) ==
    IF name = "mode" /\ id \in Range(w.cells)
    THEN [w EXCEPT !.activeCellIndex = LastIndexOf(w.cells, id)]
    ELSE w

\* NotebookModel._onCellStateChanged: the loop assigns activeCellIndex at
\* every index that holds the cell, so the last one stays.
OnCellStateChanged(w, id, name) ==
    IF name = "mode" /\ id \in Range(w.cells)
    THEN SetActiveCellIndex(w, LastIndexOf(w.cells, id))
    ELSE w

-----------------------------------------------------------------------------
(* The cells layout of the notebook widget (PanelLayout) and the handler   *)
(* that keeps it in step with the cell list.  A widget is a record on the  *)
(* widget heap; childAt of an index outside the list is `undefined`, and   *)
(* calling dispose() on it throws, which ends the handler.                 *)

\* NotebookWidget.createCell
CreateCellWidget(w, cell) ==
    [w EXCEPT !.widgets = Append(w.widgets, [model |-> cell, disposed |-> FALSE])]

LayoutHasChild(w, i) == i >= 0 /\ i < Len(w.children)

\* insertChild(index, child) of a widget that is not yet a child.
LayoutInsertChild(w, index, wid) ==
    [w EXCEPT !.children =
        ListInsertAt(w.children, Max(0, Min(index, Len(w.children))), wid)]

\* removeChild(childAt(i)) followed by dispose() of that widget.
LayoutRemoveAndDispose(w, i) ==
    [w EXCEPT !.children = ListRemoveAt(w.children, i),
              !.widgets = [@ EXCEPT ![w.children[i + 1]].disposed = TRUE]]

RECURSIVE WidgetAddAll(_, _)
WidgetAddAll(w, newValues) ==
    IF newValues = <<>> THEN w
    ELSE LET w1 == CreateCellWidget(w, Head(newValues))
         IN  WidgetAddAll(
                 [w1 EXCEPT !.children = Append(w1.children, Len(w1.widgets))],
                 Tail(newValues))

\* The Replace loop: for (i = oldValue.length; i > 0; i--) childAt(i) ...
RECURSIVE WidgetReplaceLoop(_, _, _)
WidgetReplaceLoop(w, i, newValues) ==
    IF i <= 0 THEN WidgetAddAll(w, newValues)
    ELSE IF ~LayoutHasChild(w, i) THEN [w EXCEPT !.threw = TRUE]
    ELSE WidgetReplaceLoop(LayoutRemoveAndDispose(w, i), i - 1, newValues)

\* A plausible slip: a Move event rebuilds the widget of the moved cell
\* instead of moving the widget it already has.
WidgetOnCellsChanged_RebuildOnMove(w, change) ==
    CASE change.type = "Add" ->
           LET w1 == CreateCellWidget(w, change.newValue[1])
           IN  LayoutInsertChild(w1, change.newIndex, Len(w1.widgets))
      [] change.type = "Move" ->
           IF ~LayoutHasChild(w, change.oldIndex) THEN [w EXCEPT !.threw = TRUE]
           ELSE LET w1 == CreateCellWidget(
                              LayoutRemoveAndDispose(w, change.oldIndex),
                              change.newValue[1])
                IN  LayoutInsertChild(w1, change.newIndex, Len(w1.widgets))
      [] change.type = "Remove" ->
           IF ~LayoutHasChild(w, change.oldIndex) THEN [w EXCEPT !.threw = TRUE]
           ELSE LayoutRemoveAndDispose(w, change.oldIndex)
      [] change.type = "Replace" ->
           WidgetReplaceLoop(w, Len(change.oldValue), change.newValue)
      [] change.type = "Set" ->
           IF ~LayoutHasChild(w, change.newIndex) THEN [w EXCEPT !.threw = TRUE]
           ELSE LET w1 == CreateCellWidget(
                              LayoutRemoveAndDispose(w, change.newIndex),
                              change.newValue[1])
                IN  LayoutInsertChild(w1, change.newIndex, Len(w1.widgets))
      [] OTHER -> w

\* NotebookWidget.onCellsChanged
WidgetOnCellsChanged(w, change) ==
    CASE change.type = "Add" ->
           LET w1 == CreateCellWidget(w, change.newValue[1])
           IN  LayoutInsertChild(w1, change.newIndex, Len(w1.widgets))
      [] change.type = "Move" ->
           IF ~LayoutHasChild(w, change.oldIndex) THEN [w EXCEPT !.threw = TRUE]
           ELSE [w EXCEPT !.children =
                    ListMove(w.children, change.oldIndex,
                             Min(change.newIndex, Len(w.children) - 1))]
      [] change.type = "Remove" ->
           IF ~LayoutHasChild(w, change.oldIndex) THEN [w EXCEPT !.threw = TRUE]
           ELSE LayoutRemoveAndDispose(w, change.oldIndex)
      [] change.type = "Replace" ->
           WidgetReplaceLoop(w, Len(change.oldValue), change.newValue)
      [] change.type = "Set" ->
           IF ~LayoutHasChild(w, change.newIndex) THEN [w EXCEPT !.threw = TRUE]
           ELSE LET w1 == CreateCellWidget(
                              LayoutRemoveAndDispose(w, change.newIndex),
                              change.newValue[1])
                IN  LayoutInsertChild(w1, change.newIndex, Len(w1.widgets))
      [] OTHER -> w

\* The cells list's changed signal: the model's handler, then the widget's.
EmitChanged(w, change) ==
    WidgetOnCellsChanged(ModelOnCellsChanged(w, change), change)

-----------------------------------------------------------------------------
(* The mutating calls of the notebook's cell list, each with the handlers  *)
(* it triggers.  `id` is the identity of a cell already on the heap.       *)

\* cells.add(cell)
DoCellsAdd(w, id) ==
    EmitChanged([w EXCEPT !.cells = Append(w.cells, id)],
                Change("Add", -1, <<>>, Len(w.cells), <<id>>))

\* cells.insert(index, cell)
DoCellsInsert(w, index, id) ==
    LET j == ListClamp(w.cells, index)
    IN  EmitChanged([w EXCEPT !.cells = ListInsertAt(w.cells, j, id)],
                    Change("Add", -1, <<>>, j, <<id>>))

\* cells.removeAt(index), for an index in range
DoCellsRemoveAt(w, j) ==
    EmitChanged([w EXCEPT !.cells = ListRemoveAt(w.cells, j)],
                Change("Remove", j, <<w.cells[j + 1]>>, -1, <<>>))

\* cells.move(from, to), for indices in range
DoCellsMove(w, i, j) ==
    EmitChanged([w EXCEPT !.cells = ListMove(w.cells, i, j)],
                Change("Move", i, <<w.cells[i + 1]>>, j, <<w.cells[i + 1]>>))

\* cells.set(index, cell), for an index in range
DoCellsSet(w, j, id) ==
    EmitChanged([w EXCEPT !.cells = ListSetAt(w.cells, j, id)],
                Change("Set", j, <<w.cells[j + 1]>>, j, <<id>>))

\* cells.clear()
DoCellsClear(w) ==
    EmitChanged([w EXCEPT !.cells = <<>>],
                Change("Replace", 0, w.cells, 0, <<>>))

\* A plausible slip: dispose() relies on the clear to dispose the cells,
\* although its own handler is already disconnected.
NotebookDispose_SkipCells(w) ==
    WidgetOnCellsChanged([w EXCEPT !.cells = <<>>],
                         Change("Replace", 0, w.cells, 0, <<>>))

\* NotebookModel.dispose() on a model that is not disposed: clearSignalData
\* disconnects the model's own handlers, each cell of the list is disposed,
\* and the list is cleared, which only the widget's handler still hears.
NotebookDispose(w) ==
    WidgetOnCellsChanged([w EXCEPT !.heap = DisposeCells(w.heap, w.cells),
                                   !.cells = <<>>],
                         Change("Replace", 0, w.cells, 0, <<>>))

\* Allocate a cell on the heap; its identity is Len(heap) afterwards.
Alloc(w, cell) == [w EXCEPT !.heap = Append(w.heap, cell)]


-----------------------------------------------------------------------------
(* Execution.                                                              *)

Whitespace == {" ", "\n", "\t"}

\* String.prototype.trim
RECURSIVE TrimLeft(_)
TrimLeft(text) ==
    IF text # <<>> /\ Head(text) \in Whitespace THEN TrimLeft(Tail(text)) ELSE text

RECURSIVE TrimRight(_)
TrimRight(text) ==
    IF text # <<>> /\ text[Len(text)] \in Whitespace
    THEN TrimRight(SubSeq(text, 1, Len(text) - 1))
    ELSE text

Trim(text) == TrimRight(TrimLeft(text))

\* The execute request built by executeCell.
ExecuteRequest(code) ==
    [ code |-> code, silent |-> FALSE, store_history |-> TRUE,
      stop_on_error |-> TRUE, allow_stdin |-> TRUE ]

\* The kernel future returned by kernel.execute: the request, the cell whose
\* output area and execution count its handlers are bound to, and a log of
\* the messages delivered to it so far.
NewExecution(id, request) ==
    [ cell |-> id, request |-> request, delivered |-> <<>>, replied |-> FALSE ]


\* A plausible slip: the emptiness test looks at the text as typed, not at
\* the trimmed text.
ExecuteCell_NoTrim(w, ro, sess, id) ==
    IF ro THEN w
    ELSE IF w.heap[id].text = <<>>
    THEN [w EXCEPT !.heap[id].prompt = "In [ ]:"]
    ELSE IF sess = "none" THEN w
    ELSE [w EXCEPT
            !.heap[id] = [@ EXCEPT !.prompt = "In [*]:",
                                   !.output = OutputAreaClear(@, FALSE),
                                   !.trusted = TRUE],
            !.executions =
                Append(@, NewExecution(id, ExecuteRequest(w.heap[id].text)))]

\* A plausible slip: the running marker is set before the session is looked at.
ExecuteCell_PromptFirst(w, ro, sess, id) ==
    IF ro THEN w
    ELSE IF Trim(w.heap[id].text) = <<>>
    THEN [w EXCEPT !.heap[id].prompt = "In [ ]:"]
    ELSE IF sess = "none" THEN [w EXCEPT !.heap[id].prompt = "In [*]:"]
    ELSE [w EXCEPT
            !.heap[id] = [@ EXCEPT !.prompt = "In [*]:",
                                   !.output = OutputAreaClear(@, FALSE),
                                   !.trusted = TRUE],
            !.executions =
                Append(@, NewExecution(id, ExecuteRequest(w.heap[id].text)))]

\* A plausible slip: the outputs are cleared with wait = true.
ExecuteCell_DeferredClear(w, ro, sess, id) ==
    IF ro THEN w
    ELSE IF Trim(w.heap[id].text) = <<>>
    THEN [w EXCEPT !.heap[id].prompt = "In [ ]:"]
    ELSE IF sess = "none" THEN w
    ELSE [w EXCEPT
            !.heap[id] = [@ EXCEPT !.prompt = "In [*]:",
                                   !.output = OutputAreaClear(@, TRUE),
                                   !.trusted = TRUE],
            !.executions =
                Append(@, NewExecution(id, ExecuteRequest(w.heap[id].text)))]

\* executeCell(cell)
ExecuteCell(w, ro, sess, id) ==
    IF ro THEN w
    ELSE IF Trim(w.heap[id].text) = <<>>
    THEN [w EXCEPT !.heap[id].prompt = "In [ ]:"]
    ELSE IF sess = "none" THEN w
    ELSE [w EXCEPT
            !.heap[id] = [@ EXCEPT !.prompt = "In [*]:",
                                   !.output = OutputAreaClear(@, FALSE),
                                   !.trusted = TRUE],
            !.executions =
                Append(@, NewExecution(id, ExecuteRequest(w.heap[id].text)))]

\* Whether runActiveCell appends a fresh code cell.
RunAppends(w, ro) ==
    /\ ~ro
    /\ ListHas(w.cells, w.activeCellIndex)
    /\ w.activeCellIndex = Len(w.cells) - 1

\* A plausible slip: the last-cell test compares against the length.
RunAdvance_OffByOne(w, ro) ==
    IF w.activeCellIndex = Len(w.cells)
    THEN LET w2 == Alloc(w, CreateCodeCell(w.heap, ro, 0))
         IN  [DoCellsAdd(w2, Len(w2.heap)) EXCEPT !.mode = "edit"]
    ELSE SetActiveCellIndex(w, w.activeCellIndex + 1)

\* The tail of runActiveCell: append a code cell and enter edit mode when
\* the active cell is the last one, else advance the active index.
RunAdvance(w, ro) ==
    IF w.activeCellIndex = Len(w.cells) - 1
    THEN LET w2 == Alloc(w, CreateCodeCell(w.heap, ro, 0))
         IN  [DoCellsAdd(w2, Len(w2.heap)) EXCEPT !.mode = "edit"]
    ELSE SetActiveCellIndex(w, w.activeCellIndex + 1)

\* A plausible slip: the markdown branch marks the cell trusted and forgets
\* to switch it to its rendered view.
RunActiveCell_MarkdownTrustOnly(w, ro, sess) ==
    IF ro \/ ~ListHas(w.cells, w.activeCellIndex) THEN w
    ELSE LET id == ListGet(w.cells, w.activeCellIndex)
             w1 == CASE w.heap[id].type = "markdown" ->
                         [w EXCEPT !.heap[id].trusted = TRUE]
                      [] w.heap[id].type = "code" ->
                         ExecuteCell(w, ro, sess, id)
                      [] OTHER ->
                         [w EXCEPT !.heap[id].trusted = TRUE]
         IN  RunAdvance(w1, ro)

\* A plausible slip: runActiveCell does not look at readOnly.
RunActiveCell_IgnoresReadOnly(w, ro, sess) ==
    IF ~ListHas(w.cells, w.activeCellIndex) THEN w
    ELSE LET id == ListGet(w.cells, w.activeCellIndex)
             w1 == CASE w.heap[id].type = "markdown" ->
                         [w EXCEPT !.heap[id].trusted = TRUE,
                                   !.heap[id].rendered = TRUE]
                      [] w.heap[id].type = "code" ->
                         ExecuteCell(w, ro, sess, id)
                      [] OTHER ->
                         [w EXCEPT !.heap[id].trusted = TRUE]
         IN  RunAdvance(w1, ro)

\* runActiveCell()
RunActiveCell(w, ro, sess) ==
    IF ro \/ ~ListHas(w.cells, w.activeCellIndex) THEN w
    ELSE LET id == ListGet(w.cells, w.activeCellIndex)
             w1 == CASE w.heap[id].type = "markdown" ->
                         [w EXCEPT !.heap[id].trusted = TRUE,
                                   !.heap[id].rendered = TRUE]
                      [] w.heap[id].type = "code" ->
                         ExecuteCell(w, ro, sess, id)
                      [] OTHER ->
                         [w EXCEPT !.heap[id].trusted = TRUE]
         IN  RunAdvance(w1, ro)

\* An I/O message: its header's msg_type and its content (a stream's name
\* and text, or another payload); hasContent is FALSE for a message whose
\* content is `undefined`.
Message(type, hasContent, name, text) ==
    [ msg_type |-> type, hasContent |-> hasContent, name |-> name, text |-> text ]

SampleMessages ==
    { Message("stream", TRUE, "stdout", <<"a">>),
      Message("stream", TRUE, "stdout", <<"b">>),
      Message("execute_result", TRUE, "", <<"r">>),
      Message("status", TRUE, "", <<"i">>),
      Message("shutdown_reply", FALSE, "", <<>>) }

\* The output the onIOPub handler builds: the content tagged with msg_type.
MessageOutput(msg) ==
    [ output_type |-> msg.msg_type, name |-> msg.name, text |-> msg.text ]

\* A plausible slip: the handler puts the new output in front of the list.
OnIOPub_Prepend(w, e, msg) ==
    LET id == w.executions[e].cell
    IN  IF ~msg.hasContent THEN w
        ELSE IF w.heap[id].output.disposed THEN [w EXCEPT !.threw = TRUE]
        ELSE IF MessageOutput(msg).output_type \in KnownOutputTypes
        THEN [w EXCEPT !.heap[id].output.outputs = <<MessageOutput(msg)>> \o @]
        ELSE w

\* A plausible slip (or a fix): the handler of an execution that a later
\* execution of the same cell has superseded ignores its messages.
OnIOPub_Fenced(w, e, msg) ==
    LET id == w.executions[e].cell
    IN  IF ~msg.hasContent THEN w
        ELSE IF w.heap[id].output.disposed THEN [w EXCEPT !.threw = TRUE]
        ELSE IF \E f \in DOMAIN w.executions : f > e /\ w.executions[f].cell = id
        THEN w
        ELSE [w EXCEPT !.heap[id].output = OutputAreaAdd(@, MessageOutput(msg))]

\* ex.onIOPub of execution e, bound to the output area of its cell.  The add
\* of a disposed output area reads its null list and throws.
OnIOPub(w, e, msg) ==
    LET id == w.executions[e].cell
    IN  IF ~msg.hasContent THEN w
        ELSE IF w.heap[id].output.disposed THEN [w EXCEPT !.threw = TRUE]
        ELSE [w EXCEPT !.heap[id].output = OutputAreaAdd(@, MessageOutput(msg))]

\* A plausible slip: the reply is honoured only while the cell shows no
\* output yet, that is only when it arrives ahead of every I/O message.
OnReply_BeforeOutputOnly(w, e, count) ==
    IF w.heap[w.executions[e].cell].output.outputs = <<>>
    THEN [w EXCEPT !.heap[w.executions[e].cell].executionCount = count]
    ELSE w

\* ex.onReply of execution e, bound to its cell.
OnReply(w, e, count) ==
    [w EXCEPT !.heap[w.executions[e].cell].executionCount = count]

-----------------------------------------------------------------------------
(* Serialization (notebook <-> nbformat document).  A document cell holds  *)
(* its source either as one string (text) or as an array of strings        *)
(* (lines); the fields a cell type does not carry keep their defaults.     *)

StringSource(text) == [array |-> FALSE, text |-> text, lines |-> <<>>]
ArraySource(lines) == [array |-> TRUE, text |-> <<>>, lines |-> lines]

DocCell(type, source, tags) ==
    [ cell_type |-> type, source |-> source, tags |-> tags, name |-> "",
      format |-> "", scrolled |-> FALSE, collapsed |-> FALSE,
      outputs |-> <<>>, execution_count |-> 0 ]

\* Array.prototype.join('\n')
RECURSIVE Join(_)
Join(lines) ==
    IF lines = <<>> THEN <<>>
    ELSE IF Len(lines) = 1 THEN lines[1]
    ELSE lines[1] \o <<"\n">> \o Join(Tail(lines))

\* serializeCell
SerializeCell(c) ==
    LET common == [DocCell(c.type, StringSource(c.text), c.tags)
                      EXCEPT !.name = c.name]
    IN  IF c.type = "raw" THEN [common EXCEPT !.format = c.format]
        ELSE IF c.type = "code"
        THEN [common EXCEPT !.scrolled = c.scrolled,
                            !.collapsed = c.collapsed,
                            !.outputs = c.output.outputs,
                            !.execution_count = c.executionCount]
        ELSE common

\* serialize
Serialize(hp, list, md) ==
    [ cells |-> [k \in DOMAIN list |-> SerializeCell(hp[list[k]])],
      metadata |-> md ]

\* A plausible slip: the outputs are left out when a code cell is loaded.
DeserializeCell_NoOutputs(c, data) ==
    LET common == [c EXCEPT
                     !.text = IF data.source.array THEN Join(data.source.lines)
                                                   ELSE data.source.text,
                     !.tags = data.tags,
                     !.name = data.name]
    IN  IF c.type = "code"
        THEN [common EXCEPT !.collapsed = data.collapsed,
                            !.scrolled = data.scrolled,
                            !.executionCount = data.execution_count]
        ELSE IF c.type = "raw" THEN [common EXCEPT !.format = data.format]
        ELSE common

\* deserializeCell
DeserializeCell(c, data) ==
    LET common == [c EXCEPT
                     !.text = IF data.source.array THEN Join(data.source.lines)
                                                   ELSE data.source.text,
                     !.tags = data.tags,
                     !.name = data.name]
    IN  IF c.type = "code"
        THEN [common EXCEPT !.collapsed = data.collapsed,
                            !.scrolled = data.scrolled,
                            !.executionCount = data.execution_count,
                            !.output = FoldLeft(OutputAreaAdd, @, data.outputs)]
        ELSE IF c.type = "raw" THEN [common EXCEPT !.format = data.format]
        ELSE common

\* The loop of deserialize: create the cell by its cell_type, load it, add it.
RECURSIVE DeserializeCells(_, _, _)
DeserializeCells(w, ro, docCells) ==
    IF docCells = <<>> THEN w
    ELSE LET data == Head(docCells)
             w1 == Alloc(w, DeserializeCell(
                               CreateCell(w.heap, ro, data.cell_type, 0), data))
         IN  DeserializeCells(DoCellsAdd(w1, Len(w1.heap)), ro, Tail(docCells))

\* deserialize: the assignment to model.selectedCellIndex that follows the
\* loop writes a property the model does not have.
Deserialize(w, ro, data) == DeserializeCells(DoCellsClear(w), ro, data.cells)

\* Whether loading the document changes the text of a new cell's editor,
\* which onEditorChanged answers by marking the notebook dirty.
DeserializeEdits(data) ==
    \E k \in DOMAIN data.cells :
        (IF data.cells[k].source.array THEN Join(data.cells[k].source.lines)
                                       ELSE data.cells[k].source.text) # <<>>

\* The documents handed to deserialize: well-formed, with code, markdown and
\* raw cells, sources in both forms, tags, and output lists that do and do
\* not hold two successive streams of one name.
SampleOutputLists ==
    { <<>>,
      <<Stream("stdout", <<"a">>)>>,
      <<Stream("stdout", <<"a">>), Stream("stdout", <<"b">>)>>,
      <<Stream("stdout", <<"a">>), Stream("stderr", <<"b">>)>>,
      <<Stream("stdout", <<"a">>), Other("execute_result", <<"r">>)>> }

SampleSources == { StringSource(<<"x">>), ArraySource(<<(<<"x">>), (<<"y">>)>>) }

SampleDocCells ==
    { [DocCell("code", src, <<"t">>) EXCEPT !.collapsed = TRUE,
                                            !.outputs = outs,
                                            !.execution_count = n] :
          src \in SampleSources, outs \in SampleOutputLists, n \in {0, 1} }
    \cup { DocCell("markdown", src, tags) :
              src \in SampleSources, tags \in { <<>>, <<"t">> } }
    \cup { [DocCell("raw", StringSource(<<"x">>), <<"t">>) EXCEPT !.format = f] :
              f \in {"", "f"} }

SampleDocs ==
    { [cells |-> cs,
       metadata |-> [display_name |-> "d9", name |-> "k9", language_info |-> "l9"]] :
          cs \in UNION { [1 .. n -> SampleDocCells] : n \in 0 .. MaxDocCells } }

-----------------------------------------------------------------------------
(* Saving.  A save() call is a record: its stage (waiting for the kernel   *)
(* spec, for the kernel info, for the contents manager; resolved, rejected *)
(* or thrown).                                                             *)

SaveCall(stage) == [stage |-> stage]

\* A plausible slip: save() goes straight to _save() whatever the session.
SaveStart_Direct(sess) == "direct"

\* The test that opens save(): without a session, or with a disposed one,
\* _save() is called directly; otherwise the kernel spec is asked for first.
SaveStart(sess) ==
    IF sess \in {"none", "disposed"} THEN "direct" ELSE "kernelspec"

\* A plausible slip: the dirty flag is cleared whatever the outcome, as with
\* .then(f, f).
DirtyAfterPersist_Always(d, ok) == FALSE

\* The continuation of manager.save in _save: .then(() => { dirty = false }).
DirtyAfterPersist(d, ok) == IF ok THEN FALSE ELSE d

\* _save(): serialize, read the path off the session, ask the contents
\* manager to save.  With no session the read of this.session.notebookPath
\* throws a TypeError before the manager is called.
PrivateSave(sess, hp, list, md, log) ==
    IF sess = "none"
    THEN [threw |-> TRUE, persisted |-> log]
    ELSE [threw |-> FALSE, persisted |-> Append(log, Serialize(hp, list, md))]

-----------------------------------------------------------------------------
(* Initial states.                                                         *)

\* lastOp: the operation, its argument, whether a handler threw, and what
\* the operation's claims need of the state it found (pre).
Op(name, arg) == [ op |-> name, arg |-> arg, threw |-> FALSE, pre |-> 0 ]

\* The metadata property before anything was assigned to it (`undefined`).
NoMetadata == [display_name |-> "", name |-> "", language_info |-> ""]

\* The metadata of a loaded document.
DocMetadata == [display_name |-> "d0", name |-> "k0", language_info |-> "l0"]

NoDoc == [cells |-> <<>>, metadata |-> NoMetadata]

OutputAreaInit ==
    /\ area = NewOutputArea
    /\ areaOp = [op |-> "new", output |-> Other("none", <<>>), wait |-> FALSE,
                 pre |-> NewOutputArea]

\* new NotebookModel(manager), then new NotebookWidget(model).  The
\* properties without a default value read `undefined`: activeCellIndex is
\* modelled as -1 (every use of it on the empty list behaves the same),
\* mode as "unset", readOnly and dirty as FALSE, session as "none",
\* metadata as NoMetadata.
NotebookInit ==
    /\ heap = <<>>
    /\ cells = <<>>
    /\ activeCellIndex = -1
    /\ mode = "unset"
    /\ readOnly = FALSE
    /\ dirty = FALSE
    /\ session = "none"
    /\ metadata = NoMetadata
    /\ widgets = <<>>
    /\ children = <<>>
    /\ executions = <<>>
    /\ saves = <<>>
    /\ persisted = <<>>
    /\ lastOp = Op("new", 0)
    /\ isDisposed = FALSE

-----------------------------------------------------------------------------
(* CodeMirrorWidget: a widget that shows an editor model's text in a       *)
(* CodeMirror document.  `editor` holds the model's text, the document's   *)
(* text as getValue() returns it, the widget's attached and hidden flags,  *)
(* the _needsUpdate flag, whether an update-request message is posted and  *)
(* not yet processed, and as history the last step taken, whether the      *)
(* model's text changed out of sight since the last update, and whether    *)
(* the last update loaded such a change.                                   *)

CR == "\r"
LF == "\n"

\* doc.setValue(text) followed by doc.getValue(): CodeMirror splits the text
\* into lines at "\r\n", "\r" and "\n" and joins the lines with "\n".
RECURSIVE DocSetValue(_)
DocSetValue(text) ==
    IF text = <<>> THEN <<>>
    ELSE IF Head(text) = CR
         THEN <<LF>> \o DocSetValue(IF Len(text) > 1 /\ text[2] = LF
                                    THEN SubSeq(text, 3, Len(text))
                                    ELSE Tail(text))
         ELSE <<Head(text)>> \o DocSetValue(Tail(text))

\* Widget.isVisible: attached and not hidden.
IsVisible(ed) == ed.isAttached /\ ~ed.isHidden

\* Widget.update(): posts an update-request message to the widget; a second
\* request posted before the first is processed is conflated with it.
Update(ed) == [ed EXCEPT !.updatePending = TRUE]

\* updateText, with the bookkeeping dropped: nothing is remembered while the
\* widget is detached or hidden.
UpdateText_Forgets(ed) ==
    IF ~ed.isAttached \/ ~IsVisible(ed)
    THEN ed
    ELSE Update(ed)

\* updateText: remember the change while detached or hidden, else request an
\* update.
UpdateText(ed) ==
    IF ~ed.isAttached \/ ~IsVisible(ed)
    THEN [ed EXCEPT !.needsUpdate = TRUE]
    ELSE Update(ed)

\* onModelStateChanged, case 'text'.
OnModelStateChanged(ed) == UpdateText(ed)

\* model.text = text: the property notifies stateChanged only when the value
\* changes.
SetText(ed, text) ==
    IF text = ed.text THEN ed
    ELSE OnModelStateChanged([ed EXCEPT !.text = text])

\* The document's 'change' handler: a change that did not come from setValue
\* is written to the model.
OnDocChange(ed, origin) ==
    IF origin # "setValue" THEN SetText(ed, ed.doc) ELSE ed

\* onAfterAttach and onAfterShow: request the remembered update.
OnAfterAttach(ed) == IF ed.needsUpdate THEN Update(ed) ELSE ed
OnAfterShow(ed) == IF ed.needsUpdate THEN Update(ed) ELSE ed

\* onUpdateRequest: clear the flag and, when the texts differ, load the
\* model's text into the document; the document reports the change with
\* origin 'setValue'.
OnUpdateRequest(ed) ==
    LET e1 == [ed EXCEPT !.needsUpdate = FALSE]
    IN  IF e1.doc # e1.text
        THEN OnDocChange([e1 EXCEPT !.doc = DocSetValue(e1.text)], "setValue")
        ELSE e1

\* The constructor: an empty document, then updateText(model.text) on a
\* widget that is not attached yet.
NewEditor(text) ==
    UpdateText([text |-> text, doc |-> <<>>, isAttached |-> FALSE,
                isHidden |-> FALSE, needsUpdate |-> FALSE,
                updatePending |-> FALSE, last |-> "new",
                changedUnseen |-> FALSE, appliedUnseen |-> FALSE])

EditorInit == editor = NewEditor(<<>>)

DocumentInit ==
    /\ doc = NoDoc
    /\ serialized = NoDoc

\* A new notebook model with its widget, and a new output area.
\* NotebookToolbar: the two clipboards start empty.
ToolbarInit ==
    /\ cut = <<>>
    /\ copied = <<>>

Init == OutputAreaInit /\ NotebookInit /\ DocumentInit /\ ToolbarInit /\ EditorInit

\* Write a world back to the variables.
Commit(w) ==
    /\ heap' = w.heap
    /\ cells' = w.cells
    /\ activeCellIndex' = w.activeCellIndex
    /\ widgets' = w.widgets
    /\ children' = w.children
    /\ executions' = w.executions
    /\ mode' = w.mode

-----------------------------------------------------------------------------
(* The stand-alone output area: the calls of its public interface.         *)

OA_Add(output) ==
    /\ ~area.disposed
    /\ WithinOutputBounds(OutputAreaAdd(area, output))
    /\ area' = OutputAreaAdd(area, output)
    /\ areaOp' = [op |-> "add", output |-> output, wait |-> FALSE, pre |-> area]
    /\ UNCHANGED <<notebookVars, documentVars, toolbarVars, editorVars>>

OA_Clear(wait) ==
    /\ ~area.disposed
    /\ area' = OutputAreaClear(area, wait)
    /\ areaOp' = [op |-> "clear", output |-> Other("none", <<>>), wait |-> wait,
                  pre |-> area]
    /\ UNCHANGED <<notebookVars, documentVars, toolbarVars, editorVars>>

OutputAreaNext ==
    \/ \E output \in SampleOutputs : OA_Add(output)
    \/ \E wait \in BOOLEAN : OA_Clear(wait)

SpecOutputArea ==
    /\ Init
    /\ [][OutputAreaNext]_vars

-----------------------------------------------------------------------------
(* The notebook's cell list driven through its public interface, with the  *)
(* notebook widget attached.                                               *)

\* cells.add(create<Type>Cell())
CellsAdd(type) ==
    /\ Len(heap) < MaxCells
    /\ LET w == Alloc(World, CreateCell(heap, readOnly, type, 0))
       IN  Commit(DoCellsAdd(w, Len(w.heap)))
    /\ lastOp' = Op("add", type)
    /\ UNCHANGED <<readOnly, dirty, session, metadata, saves, persisted,
                   isDisposed, outputAreaVars, documentVars, toolbarVars, editorVars>>

\* cells.insert(index, create<Type>Cell())
CellsInsert(index, type) ==
    /\ Len(heap) < MaxCells
    /\ LET w == Alloc(World, CreateCell(heap, readOnly, type, 0))
       IN  Commit(DoCellsInsert(w, index, Len(w.heap)))
    /\ lastOp' = Op("insert", index)
    /\ UNCHANGED <<readOnly, dirty, session, metadata, saves, persisted,
                   isDisposed, outputAreaVars, documentVars, toolbarVars, editorVars>>

\* cells.removeAt(index)
CellsRemoveAt(index) ==
    /\ ListHas(cells, index)
    /\ Commit(DoCellsRemoveAt(World, ListNorm(cells, index)))
    /\ lastOp' = Op("removeAt", index)
    /\ UNCHANGED <<readOnly, dirty, session, metadata, saves, persisted,
                   isDisposed, outputAreaVars, documentVars, toolbarVars, editorVars>>

\* cells.move(from, to)
CellsMove(from, to) ==
    /\ ListCheck(cells, from) /\ ListCheck(cells, to) /\ from # to
    /\ Commit(DoCellsMove(World, from, to))
    /\ lastOp' = Op("move", <<from, to>>)
    /\ UNCHANGED <<readOnly, dirty, session, metadata, saves, persisted,
                   isDisposed, outputAreaVars, documentVars, toolbarVars, editorVars>>

\* cells.set(index, create<Type>Cell())
CellsSet(index, type) ==
    /\ Len(heap) < MaxCells
    /\ ListCheck(cells, index)
    /\ LET w == Alloc(World, CreateCell(heap, readOnly, type, 0))
       IN  Commit(DoCellsSet(w, index, Len(w.heap)))
    /\ lastOp' = Op("set", index)
    /\ UNCHANGED <<readOnly, dirty, session, metadata, saves, persisted,
                   isDisposed, outputAreaVars, documentVars, toolbarVars, editorVars>>

\* cells.clear()
CellsClear ==
    /\ LET w == DoCellsClear(World)
       IN  /\ Commit(w)
           /\ lastOp' = [Op("clear", 0) EXCEPT !.threw = w.threw]
    /\ UNCHANGED <<readOnly, dirty, session, metadata, saves, persisted,
                   isDisposed, outputAreaVars, documentVars, toolbarVars, editorVars>>

\* notebook.activeCellIndex = value
SetActive(value) ==
    /\ Commit(SetActiveCellIndex(World, value))
    /\ lastOp' = Op("setActive", value)
    /\ UNCHANGED <<readOnly, dirty, session, metadata, saves, persisted,
                   isDisposed, outputAreaVars, documentVars, toolbarVars, editorVars>>

CellsNext ==
    \/ \E type \in CellTypes : CellsAdd(type)
    \/ \E index \in 0 .. Len(cells), type \in CellTypes : CellsInsert(index, type)
    \/ \E index \in -1 .. Len(cells) - 1 : CellsRemoveAt(index)
    \/ \E from \in 0 .. Len(cells) - 1, to \in 0 .. Len(cells) - 1 :
          CellsMove(from, to)
    \/ \E index \in 0 .. Len(cells) - 1, type \in CellTypes : CellsSet(index, type)
    \/ CellsClear
    \/ \E value \in -1 .. Len(cells) : SetActive(value)

SpecCells ==
    /\ Init
    /\ [][CellsNext]_vars

-----------------------------------------------------------------------------
(* The notebook in use: cells are added and edited, a session is attached, *)
(* the active cell is run and the kernel delivers messages and replies.    *)

SampleTexts == { <<"x">>, <<" ">> }

\* The user types in the editor of a cell of the list: the editor model's
\* text changes and onEditorChanged, where the factory connected it, marks
\* the notebook dirty.
EditText(index, text) ==
    /\ ListCheck(cells, index)
    /\ ~heap[cells[index + 1]].disposed
    /\ heap[cells[index + 1]].text # text
    /\ heap' = [heap EXCEPT ![cells[index + 1]].text = text]
    /\ dirty' = (dirty \/ heap[cells[index + 1]].connected)
    /\ lastOp' = Op("edit", index)
    /\ UNCHANGED <<cells, activeCellIndex, mode, readOnly, session, metadata,
                   widgets, children, executions, saves, persisted,
                   isDisposed, outputAreaVars, documentVars, toolbarVars, editorVars>>

\* notebook.session = a session, or no session
AttachSession(value) ==
    /\ session # value
    /\ session' = value
    /\ lastOp' = Op("session", value)
    /\ UNCHANGED <<heap, cells, activeCellIndex, mode, readOnly, dirty, metadata,
                   widgets, children, executions, saves, persisted,
                   isDisposed, outputAreaVars, documentVars, toolbarVars, editorVars>>

\* A plausible slip: the loop of the setter stops one cell short.
ReadOnlyCascade_StopsShort(hp, list, value) ==
    [id \in DOMAIN hp |->
        IF id \in Range(SubSeq(list, 1, Len(list) - 1))
        THEN [hp[id] EXCEPT !.readOnly = value]
        ELSE hp[id]]

\* The loop of the readOnly setter: every cell of the list takes the value.
ReadOnlyCascade(hp, list, value) ==
    [id \in DOMAIN hp |->
        IF id \in Range(list)
        THEN [hp[id] EXCEPT !.readOnly = value]
        ELSE hp[id]]

\* notebook.readOnly = value
SetReadOnly(value) ==
    /\ readOnly # value
    /\ readOnly' = value
    /\ heap' = ReadOnlyCascade(heap, cells, value)
    /\ lastOp' = Op("readOnly", value)
    /\ UNCHANGED <<cells, activeCellIndex, mode, dirty, session, metadata,
                   widgets, children, executions, saves, persisted,
                   isDisposed, outputAreaVars, documentVars, toolbarVars, editorVars>>

\* notebook.runActiveCell()
Run ==
    /\ RunAppends(World, readOnly) => Len(heap) < MaxCells
    /\ Len(executions) < MaxExecutions
    /\ Commit(RunActiveCell(World, readOnly, session))
    /\ lastOp' = [Op("run", 0) EXCEPT
                     !.pre = [cells |-> cells, activeCellIndex |-> activeCellIndex]]
    /\ UNCHANGED <<readOnly, dirty, session, metadata, saves, persisted,
                   isDisposed, outputAreaVars, documentVars, toolbarVars, editorVars>>

\* The kernel delivers an I/O message to the future of execution e.
DeliverIOPub(e, msg) ==
    /\ e \in DOMAIN executions
    /\ Len(executions[e].delivered) < MaxMessages
    /\ LET w == OnIOPub(World, e, msg)
       IN  /\ WithinOutputBounds(w.heap[executions[e].cell].output)
           /\ Commit([w EXCEPT !.executions[e].delivered = Append(@, msg)])
           /\ lastOp' = [Op("iopub", <<e, msg>>) EXCEPT
                            !.threw = w.threw,
                            !.pre = heap[executions[e].cell].output]
    /\ UNCHANGED <<readOnly, dirty, session, metadata, saves, persisted,
                   isDisposed, outputAreaVars, documentVars, toolbarVars, editorVars>>

\* The kernel delivers the execute reply to the future of execution e; the
\* kernel counts the requests it has run, so the reply to the e-th request
\* carries execution_count e.
DeliverReply(e, count) ==
    /\ e \in DOMAIN executions
    /\ ~executions[e].replied
    /\ Commit([OnReply(World, e, count) EXCEPT !.executions[e].replied = TRUE])
    /\ lastOp' = Op("reply", <<e, count>>)
    /\ UNCHANGED <<readOnly, dirty, session, metadata, saves, persisted,
                   isDisposed, outputAreaVars, documentVars, toolbarVars, editorVars>>

\* Running cells: notebooks of every mix of cell types, with and without a
\* session, read-only or not.
Next ==
    \/ \E type \in CellTypes : CellsAdd(type)
    \/ \E index \in 0 .. Len(cells) - 1, text \in SampleTexts : EditText(index, text)
    \/ \E value \in {"none", "live"} : AttachSession(value)
    \/ \E value \in BOOLEAN : SetReadOnly(value)
    \/ \E value \in 0 .. Len(cells) - 1 : SetActive(value)
    \/ Run

Spec ==
    /\ Init
    /\ [][Next]_vars

\* Executions in flight.  The notebook starts as the application leaves it
\* once a session is attached and the user has typed into its first code
\* cell (the state Spec reaches by CellsAdd("code"), EditText(0, "x") and
\* AttachSession("live")); cells are run, possibly again, and the kernel
\* delivers the messages and replies of every execution.
ExecInit ==
    LET w == DoCellsAdd(
                 [ heap |-> <<[CreateCodeCell(<<>>, FALSE, 0) EXCEPT !.text = <<"x">>]>>,
                   cells |-> <<>>, activeCellIndex |-> -1, widgets |-> <<>>,
                   children |-> <<>>, executions |-> <<>>, mode |-> "unset",
                   threw |-> FALSE ], 1)
    IN  /\ heap = w.heap
        /\ cells = w.cells
        /\ activeCellIndex = w.activeCellIndex
        /\ widgets = w.widgets
        /\ children = w.children
        /\ executions = <<>>
        /\ mode = "unset"
        /\ readOnly = FALSE
        /\ dirty = TRUE
        /\ session = "live"
        /\ metadata = DocMetadata
        /\ saves = <<>>
        /\ persisted = <<>>
        /\ lastOp = Op("new", 0)
        /\ isDisposed = FALSE

ExecNext ==
    \/ \E index \in 0 .. Len(cells) - 1, text \in {<<"x">>} : EditText(index, text)
    \/ \E value \in 0 .. Len(cells) - 1 : SetActive(value)
    \/ Run
    \/ \E e \in DOMAIN executions, msg \in SampleMessages : DeliverIOPub(e, msg)
    \/ \E e \in DOMAIN executions : DeliverReply(e, e)

InitExec == OutputAreaInit /\ ExecInit /\ DocumentInit /\ ToolbarInit /\ EditorInit

SpecExec ==
    /\ InitExec
    /\ [][ExecNext]_vars

-----------------------------------------------------------------------------
(* Saving: save() calls, the kernel's answers and the contents manager's.  *)

\* The session object is disposed; the notebook still refers to it.
DisposeSession ==
    /\ session = "live"
    /\ session' = "disposed"
    /\ lastOp' = Op("disposeSession", 0)
    /\ UNCHANGED <<heap, cells, activeCellIndex, mode, readOnly, dirty, metadata,
                   widgets, children, executions, saves, persisted,
                   isDisposed, outputAreaVars, documentVars, toolbarVars, editorVars>>

SavePre == [session |-> session, dirty |-> dirty, saves |-> saves,
            persists |-> Len(persisted)]

\* notebook.metadata = the metadata of a document
SetMetadata ==
    /\ metadata = NoMetadata
    /\ metadata' = DocMetadata
    /\ lastOp' = Op("metadata", 0)
    /\ UNCHANGED <<heap, cells, activeCellIndex, mode, readOnly, dirty, session,
                   widgets, children, executions, saves, persisted,
                   isDisposed, outputAreaVars, documentVars, toolbarVars, editorVars>>

\* notebook.save()
Save ==
    /\ Len(saves) < MaxSaves
    /\ IF SaveStart(session) = "direct"
       THEN LET r == PrivateSave(session, heap, cells, metadata, persisted)
            IN  /\ persisted' = r.persisted
                /\ saves' = Append(saves, SaveCall(IF r.threw THEN "threw"
                                                              ELSE "persist"))
                /\ lastOp' = [Op("save", Len(saves) + 1) EXCEPT
                                 !.threw = r.threw, !.pre = SavePre]
       ELSE /\ persisted' = persisted
            /\ saves' = Append(saves, SaveCall("kernelspec"))
            /\ lastOp' = [Op("save", Len(saves) + 1) EXCEPT !.pre = SavePre]
    /\ UNCHANGED <<heap, cells, activeCellIndex, mode, readOnly, dirty, session,
                   metadata, widgets, children, executions,
                   isDisposed, outputAreaVars, documentVars, toolbarVars, editorVars>>

\* getKernelSpec() resolves: the first continuation of save() stores the
\* display name, reads the kernel name off the session and asks for the
\* kernel info.  With the session gone meanwhile the read throws, which
\* rejects the promise; what a disposed session answers is the session
\* library's business, so either outcome is possible.  On a notebook whose
\* metadata was never assigned the write to this.metadata.kernelspec throws.
KernelSpecReply(s) ==
    /\ s \in DOMAIN saves
    /\ saves[s].stage = "kernelspec"
    /\ \/ /\ metadata = NoMetadata
          /\ metadata' = metadata
          /\ saves' = [saves EXCEPT ![s].stage = "rejected"]
       \/ /\ metadata # NoMetadata
          /\ session \in {"live", "disposed"}
          /\ metadata' = [metadata EXCEPT !.display_name = "d1", !.name = "k1"]
          /\ saves' = [saves EXCEPT ![s].stage = "kernelinfo"]
       \/ /\ metadata # NoMetadata
          /\ session \in {"none", "disposed"}
          /\ metadata' = [metadata EXCEPT !.display_name = "d1"]
          /\ saves' = [saves EXCEPT ![s].stage = "rejected"]
    /\ lastOp' = [Op("kernelSpecReply", s) EXCEPT !.pre = SavePre]
    /\ UNCHANGED <<heap, cells, activeCellIndex, mode, readOnly, dirty, session,
                   widgets, children, executions, persisted,
                   isDisposed, outputAreaVars, documentVars, toolbarVars, editorVars>>

\* kernelInfo() resolves: the second continuation stores the language info
\* and calls _save(); an exception thrown there rejects the promise.
KernelInfoReply(s) ==
    /\ s \in DOMAIN saves
    /\ saves[s].stage = "kernelinfo"
    /\ metadata' = [metadata EXCEPT !.language_info = "l1"]
    /\ LET r == PrivateSave(session, heap, cells, metadata', persisted)
       IN  /\ persisted' = r.persisted
           /\ saves' = [saves EXCEPT ![s].stage = IF r.threw THEN "rejected"
                                                             ELSE "persist"]
    /\ lastOp' = [Op("kernelInfoReply", s) EXCEPT !.pre = SavePre]
    /\ UNCHANGED <<heap, cells, activeCellIndex, mode, readOnly, dirty, session,
                   widgets, children, executions, isDisposed, outputAreaVars,
                   documentVars, toolbarVars, editorVars>>

\* getKernelSpec() or kernelInfo() rejects, and with it the save.
KernelReject(s) ==
    /\ s \in DOMAIN saves
    /\ saves[s].stage \in {"kernelspec", "kernelinfo"}
    /\ saves' = [saves EXCEPT ![s].stage = "rejected"]
    /\ lastOp' = [Op("kernelReject", s) EXCEPT !.pre = SavePre]
    /\ UNCHANGED <<heap, cells, activeCellIndex, mode, readOnly, dirty, session,
                   metadata, widgets, children, executions, persisted,
                   isDisposed, outputAreaVars, documentVars, toolbarVars, editorVars>>

\* The contents manager's save resolves.
PersistResolve(s) ==
    /\ s \in DOMAIN saves
    /\ saves[s].stage = "persist"
    /\ saves' = [saves EXCEPT ![s].stage = "resolved"]
    /\ dirty' = DirtyAfterPersist(dirty, TRUE)
    /\ lastOp' = [Op("persistResolve", s) EXCEPT !.pre = SavePre]
    /\ UNCHANGED <<heap, cells, activeCellIndex, mode, readOnly, session,
                   metadata, widgets, children, executions, persisted,
                   isDisposed, outputAreaVars, documentVars, toolbarVars, editorVars>>

\* The contents manager's save rejects.
PersistReject(s) ==
    /\ s \in DOMAIN saves
    /\ saves[s].stage = "persist"
    /\ saves' = [saves EXCEPT ![s].stage = "rejected"]
    /\ dirty' = DirtyAfterPersist(dirty, FALSE)
    /\ lastOp' = [Op("persistReject", s) EXCEPT !.pre = SavePre]
    /\ UNCHANGED <<heap, cells, activeCellIndex, mode, readOnly, session,
                   metadata, widgets, children, executions, persisted,
                   isDisposed, outputAreaVars, documentVars, toolbarVars, editorVars>>

SaveNext ==
    \/ CellsAdd("code")
    \/ \E index \in 0 .. Len(cells) - 1 : EditText(index, <<"x">>)
    \/ \E value \in {"none", "live"} : AttachSession(value)
    \/ DisposeSession
    \/ SetMetadata
    \/ Save
    \/ \E s \in DOMAIN saves : KernelSpecReply(s)
    \/ \E s \in DOMAIN saves : KernelInfoReply(s)
    \/ \E s \in DOMAIN saves : KernelReject(s)
    \/ \E s \in DOMAIN saves : PersistResolve(s)
    \/ \E s \in DOMAIN saves : PersistReject(s)

SpecSave ==
    /\ Init
    /\ [][SaveNext]_vars

-----------------------------------------------------------------------------
(* The round trip: a document is loaded into a fresh notebook model and    *)
(* the model is serialized.                                                *)

RoundTripInit ==
    /\ doc \in SampleDocs
    /\ serialized = NoDoc

\* deserialize(doc, model) on the fresh model
DeserializeDoc ==
    /\ heap = <<>>
    /\ Commit(Deserialize(World, readOnly, doc))
    /\ metadata' = doc.metadata
    /\ dirty' = (dirty \/ DeserializeEdits(doc))
    /\ lastOp' = Op("deserialize", 0)
    /\ UNCHANGED <<readOnly, session, saves, persisted, isDisposed,
                   outputAreaVars, documentVars, toolbarVars, editorVars>>

\* serialize(model)
SerializeNotebook ==
    /\ serialized' = Serialize(heap, cells, metadata)
    /\ lastOp' = [Op("serialize", 0) EXCEPT !.pre = lastOp.op]
    /\ UNCHANGED <<heap, cells, activeCellIndex, mode, readOnly, dirty, session,
                   metadata, widgets, children, executions, saves, persisted,
                   isDisposed, outputAreaVars, doc, toolbarVars, editorVars>>

RoundTripNext ==
    \/ DeserializeDoc
    \/ SerializeNotebook

InitRoundTrip ==
    OutputAreaInit /\ NotebookInit /\ RoundTripInit /\ ToolbarInit /\ EditorInit

SpecRoundTrip ==
    /\ InitRoundTrip
    /\ [][RoundTripNext]_vars

-----------------------------------------------------------------------------
(* Disposal of the notebook model and of the stand-alone output area.      *)

\* notebook.dispose()
Dispose ==
    /\ IF isDisposed
       THEN /\ UNCHANGED <<heap, cells, activeCellIndex, widgets, children,
                           executions, mode>>
            /\ lastOp' = [Op("dispose", 0) EXCEPT !.pre = isDisposed]
       ELSE LET w == NotebookDispose(World)
            IN  /\ Commit(w)
                /\ lastOp' = [Op("dispose", 0) EXCEPT !.pre = isDisposed,
                                                      !.threw = w.threw]
    /\ isDisposed' = TRUE
    /\ UNCHANGED <<readOnly, dirty, session, metadata, saves, persisted,
                   outputAreaVars, documentVars, toolbarVars, editorVars>>

\* area.dispose()
OA_Dispose ==
    /\ area' = OutputAreaDispose(area)
    /\ areaOp' = [op |-> "dispose", output |-> Other("none", <<>>),
                  wait |-> FALSE, pre |-> area]
    /\ UNCHANGED <<notebookVars, documentVars, toolbarVars, editorVars>>

\* Cells are added to a notebook and outputs to an output area until each
\* is disposed, once or several times.
DisposeNext ==
    \/ \E type \in {"code", "markdown"} : ~isDisposed /\ CellsAdd(type)
    \/ Dispose
    \/ \E output \in {Stream("stdout", <<"a">>), Other("execute_result", <<"r">>)} :
          OA_Add(output)
    \/ OA_Clear(TRUE)
    \/ OA_Dispose

SpecDispose ==
    /\ Init
    /\ [][DisposeNext]_vars

-----------------------------------------------------------------------------

(* Claims about the output area.                                           *)

\* The output list as add finds it once a pending deferred clear is applied.
EffectiveOutputs(a) == IF a.clearNext THEN <<>> ELSE a.outputs

\* C1: when add is given a stream and the last entry of the list (as it
\* stands once a pending deferred clear is applied) is a stream of the same
\* name, the length is unchanged and the last entry becomes a stream whose
\* text is the old last text followed by the new text; when the last entry
\* is a stream of another name, is not a stream, or the list is empty, the
\* stream is appended as a new last entry.
C1_StreamConsolidation ==
    (areaOp.op = "add" /\ isStream(areaOp.output)) =>
        LET old == EffectiveOutputs(areaOp.pre)
            n == Len(old)
        IN  IF n > 0 /\ isStream(old[n]) /\ old[n].name = areaOp.output.name
            THEN /\ Len(area.outputs) = n
                 /\ SubSeq(area.outputs, 1, n - 1) = SubSeq(old, 1, n - 1)
                 /\ area.outputs[n] =
                        Stream(areaOp.output.name,
                               old[n].text \o areaOp.output.text)
            ELSE area.outputs = Append(old, areaOp.output)

\* stdout 'a' then stdout 'b' gave the single entry 'ab', and stdout 'a' then
\* stderr 'b' gave two entries.
C1_Witness ==
    /\ areaOp.op = "add"
    /\ ~areaOp.pre.clearNext
    /\ \/ /\ areaOp.pre.outputs = <<Stream("stdout", <<"a">>)>>
          /\ areaOp.output = Stream("stdout", <<"b">>)
          /\ area.outputs = <<Stream("stdout", <<"a", "b">>)>>
       \/ /\ areaOp.pre.outputs = <<Stream("stdout", <<"a">>)>>
          /\ areaOp.output = Stream("stderr", <<"b">>)
          /\ Len(area.outputs) = 2

\* C2: an add of an output of a known kind that finds the deferred clear
\* pending leaves a list holding only that output and resets the flag; an
\* add that finds no deferred clear pending removes no entry.
C2_DeferredClear ==
    /\ (/\ areaOp.op = "add"
        /\ areaOp.pre.clearNext
        /\ areaOp.output.output_type \in KnownOutputTypes)
            => (area.outputs = <<areaOp.output>> /\ ~area.clearNext)
    /\ (areaOp.op = "add" /\ ~areaOp.pre.clearNext)
            => /\ Len(area.outputs) >= Len(areaOp.pre.outputs)
               /\ ~area.clearNext
    /\ (areaOp.op = "clear" /\ areaOp.wait)
            => (area.clearNext /\ area.outputs = areaOp.pre.outputs)

\* A deferred clear was pending over two entries and the add left only X.
C2_Witness ==
    /\ areaOp.op = "add"
    /\ areaOp.pre.clearNext
    /\ Len(areaOp.pre.outputs) = 2
    /\ area.outputs = <<areaOp.output>>

-----------------------------------------------------------------------------
(* Claims about the cell list, the active cell and the widget reconciler.  *)

\* C3: in a notebook with at least one cell exactly one cell has
\* active = true, and it is cells[activeCellIndex].
C3_ActiveCellInvariant ==
    Len(cells) >= 1 =>
        /\ ListCheck(cells, activeCellIndex)
        /\ \A k \in DOMAIN cells :
              heap[cells[k]].active = (k - 1 = activeCellIndex)

\* C4: after the widget has processed a list change, the number of child
\* cell widgets equals the length of the model's cell list.
C4_WidgetCount == Len(children) = Len(cells)


-----------------------------------------------------------------------------
(* Claims about running and executing cells.                               *)

\* C5: runActiveCell on a notebook that is not read-only and has an active
\* cell: if the active cell was the last one, the list grows by exactly one
\* cell, a code cell, at the end, mode is 'edit' and activeCellIndex is the
\* index of the new cell; otherwise the list is unchanged and activeCellIndex
\* is one more than it was.
C5_RunActiveCell ==
    (/\ lastOp.op = "run"
     /\ ~readOnly
     /\ ListHas(lastOp.pre.cells, lastOp.pre.activeCellIndex))
        => IF lastOp.pre.activeCellIndex = Len(lastOp.pre.cells) - 1
           THEN /\ Len(cells) = Len(lastOp.pre.cells) + 1
                /\ SubSeq(cells, 1, Len(cells) - 1) = lastOp.pre.cells
                /\ heap[cells[Len(cells)]].type = "code"
                /\ mode = "edit"
                /\ activeCellIndex = Len(cells) - 1
           ELSE /\ cells = lastOp.pre.cells
                /\ activeCellIndex = lastOp.pre.activeCellIndex + 1

\* A 1-cell notebook holding a raw cell was run and became a 2-cell notebook
\* with activeCellIndex 1, mode edit and a code cell at index 1.
C5_Witness ==
    /\ lastOp.op = "run"
    /\ ~readOnly
    /\ Len(lastOp.pre.cells) = 1
    /\ heap[lastOp.pre.cells[1]].type = "raw"
    /\ Len(cells) = 2
    /\ activeCellIndex = 1
    /\ mode = "edit"
    /\ heap[cells[2]].type = "code"

\* What the onIOPub handler does with one message, as a step of a fold.
AddMessage(a, msg) ==
    IF msg.hasContent THEN OutputAreaAdd(a, MessageOutput(msg)) ELSE a

\* Whether a later execution of the same cell has superseded execution e.
Superseded(e) ==
    \E f \in DOMAIN executions : f > e /\ executions[f].cell = executions[e].cell

Rerun(e) ==
    \E f \in DOMAIN executions : f # e /\ executions[f].cell = executions[e].cell

\* C6: for an execution of a cell that was not run again and is not
\* disposed, the cell's output list is the result of applying add, in
\* arrival order, to the messages delivered so far, starting from the empty
\* list executeCell left.
C6_ArrivalOrder ==
    \A e \in DOMAIN executions :
        (~Rerun(e) /\ ~heap[executions[e].cell].disposed)
            => heap[executions[e].cell].output.outputs =
                   FoldLeft(AddMessage, NewOutputArea, executions[e].delivered).outputs

\* Two messages arrived for an execution that was not run again, and the
\* list shows them in arrival order (the non-stream result first).
C6_Witness ==
    \E e \in DOMAIN executions :
        /\ ~Rerun(e)
        /\ executions[e].delivered =
               << Message("execute_result", TRUE, "", <<"r">>),
                  Message("stream", TRUE, "stdout", <<"a">>) >>
        /\ heap[executions[e].cell].output.outputs =
               << Other("execute_result", <<"r">>), Stream("stdout", <<"a">>) >>

\* C7: an I/O message with content delivered to an execution that a later
\* execution of the same cell has superseded is still added to the cell's
\* output area.
C7_LateMessageApplied ==
    (/\ lastOp.op = "iopub"
     /\ Superseded(lastOp.arg[1])
     /\ lastOp.arg[2].hasContent
     /\ ~lastOp.threw)
        => heap[executions[lastOp.arg[1]].cell].output =
               OutputAreaAdd(lastOp.pre, MessageOutput(lastOp.arg[2]))

\* After the re-run cleared the list and before any message of the re-run,
\* a message of the earlier execution arrived and is in the list.
C7_Witness ==
    /\ lastOp.op = "iopub"
    /\ Superseded(lastOp.arg[1])
    /\ \A f \in DOMAIN executions :
          (f > lastOp.arg[1] /\ executions[f].cell = executions[lastOp.arg[1]].cell)
              => executions[f].delivered = <<>>
    /\ lastOp.pre.outputs = <<>>
    /\ heap[executions[lastOp.arg[1]].cell].output.outputs =
           <<MessageOutput(lastOp.arg[2])>>

-----------------------------------------------------------------------------
(* Claims about saving.                                                    *)

\* C8: save() with no attached session serializes the notebook and issues
\* the persist request directly, without raising an error.
C8_SaveWithoutSession ==
    (lastOp.op = "save" /\ lastOp.pre.session = "none")
        => /\ ~lastOp.threw
           /\ Len(persisted) = lastOp.pre.persists + 1
           /\ persisted[Len(persisted)] = Serialize(heap, cells, metadata)

\* C9: when the contents manager's save resolves, the save resolves and
\* dirty is false; when it rejects, the save rejects, dirty keeps the value
\* it had, no persist request is issued and no other save call moves.
C9_SaveOutcome ==
    /\ lastOp.op = "persistResolve"
          => (saves[lastOp.arg].stage = "resolved" /\ ~dirty)
    /\ lastOp.op = "persistReject"
          => /\ saves[lastOp.arg].stage = "rejected"
             /\ dirty = lastOp.pre.dirty
             /\ Len(persisted) = lastOp.pre.persists
             /\ saves = [lastOp.pre.saves EXCEPT ![lastOp.arg].stage = "rejected"]

\* The contents manager rejected the save of a dirty notebook, and the
\* notebook is still dirty.
C9_Witness ==
    /\ lastOp.op = "persistReject"
    /\ lastOp.pre.dirty
    /\ dirty
    /\ saves[lastOp.arg].stage = "rejected"

-----------------------------------------------------------------------------
(* Claims about the round trip.                                            *)

RoundTripDone == lastOp.op = "serialize" /\ lastOp.pre = "deserialize"

Canonical(d) ==
    \A k \in DOMAIN d.cells :
        /\ ~d.cells[k].source.array
        /\ \A m \in 1 .. Len(d.cells[k].outputs) - 1 :
              ~(/\ isStream(d.cells[k].outputs[m])
                /\ isStream(d.cells[k].outputs[m + 1])
                /\ d.cells[k].outputs[m].name = d.cells[k].outputs[m + 1].name)

-----------------------------------------------------------------------------
(* Claims about loading a document.                                        *)

\* C11: after deserialize has loaded a document with at least one cell, the
\* first cell is the active cell: activeCellIndex is 0 and cells[0].active
\* is true.
C11_FirstCellActive ==
    (lastOp.op = "deserialize" /\ Len(cells) >= 1)
        => (activeCellIndex = 0 /\ heap[cells[1]].active)

-----------------------------------------------------------------------------
(* Claims about the kinds of output.                                       *)

\* C12: after any sequence of add and clear calls every entry of the output
\* list has a known output_type, and an add of any other kind adds no entry:
\* it leaves the list as the pending deferred clear, if any, leaves it.
C12_UnknownKindsFiltered ==
    /\ \A k \in DOMAIN area.outputs :
          area.outputs[k].output_type \in KnownOutputTypes
    /\ (areaOp.op = "add" /\ areaOp.output.output_type \notin KnownOutputTypes)
          => area.outputs = EffectiveOutputs(areaOp.pre)

\* An output of an unknown kind was added to a list of two entries, which
\* still holds those two entries.
C12_Witness ==
    /\ areaOp.op = "add"
    /\ areaOp.output.output_type = "status"
    /\ ~areaOp.pre.clearNext
    /\ Len(areaOp.pre.outputs) = 2
    /\ area.outputs = areaOp.pre.outputs

-----------------------------------------------------------------------------
(* Claims about executeCell.  executeCell is protected; the notebook calls *)
(* it from runActiveCell, on the active cell, when that is a code cell and *)
(* the notebook is not read-only.                                          *)

\* The step is a runActiveCell that calls executeCell on the active cell.
RunExecutes ==
    /\ lastOp'.op = "run"
    /\ ~readOnly
    /\ ListHas(cells, activeCellIndex)
    /\ heap[ListGet(cells, activeCellIndex)].type = "code"

\* The cell runActiveCell found active, seen from the state it leaves.
RanCell == lastOp.pre.cells[lastOp.pre.activeCellIndex + 1]

\* The last step was a runActiveCell that called executeCell.
RanExecute ==
    /\ lastOp.op = "run"
    /\ ~readOnly
    /\ ListHas(lastOp.pre.cells, lastOp.pre.activeCellIndex)
    /\ heap[RanCell].type = "code"

\* C13: executeCell on a code cell whose input text is empty or only
\* whitespace sends no execute request, leaves the cell's output list
\* unchanged and sets the prompt to 'In [ ]:'.
C13_EmptyInput ==
    [][ (RunExecutes /\ Trim(heap[ListGet(cells, activeCellIndex)].text) = <<>>)
          => LET id == ListGet(cells, activeCellIndex)
             IN  /\ executions' = executions
                 /\ heap'[id].output = heap[id].output
                 /\ heap'[id].prompt = "In [ ]:" ]_vars

\* A code cell holding a single blank was run with a session attached: no
\* request was sent and the prompt is the idle marker.
C13_Witness ==
    /\ RanExecute
    /\ heap[RanCell].text = <<" ">>
    /\ session = "live"
    /\ executions = <<>>
    /\ heap[RanCell].prompt = "In [ ]:"

\* C14: executeCell with input text that is not blank and no session
\* attached leaves the cell's prompt, outputs, trusted flag and
\* executionCount as they were and sends no request.
C14_NoSession ==
    [][ (/\ RunExecutes
         /\ Trim(heap[ListGet(cells, activeCellIndex)].text) # <<>>
         /\ session = "none")
          => LET id == ListGet(cells, activeCellIndex)
             IN  /\ executions' = executions
                 /\ heap'[id].prompt = heap[id].prompt
                 /\ heap'[id].output = heap[id].output
                 /\ heap'[id].trusted = heap[id].trusted
                 /\ heap'[id].executionCount = heap[id].executionCount ]_vars

\* A code cell holding 'x' was run with no session: nothing was sent and
\* the prompt is still the one the cell was created with.
C14_Witness ==
    /\ RanExecute
    /\ heap[RanCell].text = <<"x">>
    /\ session = "none"
    /\ executions = <<>>
    /\ heap[RanCell].prompt = ""

\* C15: executeCell on a notebook that is not read-only, with a session and
\* input text that is not blank: on return the prompt is 'In [*]:', the
\* output list is empty and no deferred clear is pending, the cell is
\* trusted, and exactly one execute request was issued, carrying the source
\* text with silent false and store_history, stop_on_error and allow_stdin
\* true.
C15_Execute ==
    [][ (/\ RunExecutes
         /\ Trim(heap[ListGet(cells, activeCellIndex)].text) # <<>>
         /\ session # "none")
          => LET id == ListGet(cells, activeCellIndex)
             IN  /\ heap'[id].prompt = "In [*]:"
                 /\ heap'[id].output.outputs = <<>>
                 /\ ~heap'[id].output.clearNext
                 /\ heap'[id].trusted
                 /\ Len(executions') = Len(executions) + 1
                 /\ SubSeq(executions', 1, Len(executions)) = executions
                 /\ executions'[Len(executions')].cell = id
                 /\ executions'[Len(executions')].request =
                        [ code |-> heap[id].text, silent |-> FALSE,
                          store_history |-> TRUE, stop_on_error |-> TRUE,
                          allow_stdin |-> TRUE ] ]_vars

\* A cell whose first execution had put an output in its list was run
\* again: the list is empty and the second request carries the text.
C15_Witness ==
    /\ RanExecute
    /\ Len(executions) = 2
    /\ executions[1].cell = RanCell
    /\ executions[2].cell = RanCell
    /\ executions[1].delivered = <<Message("execute_result", TRUE, "", <<"r">>)>>
    /\ executions[2].request.code = <<"x">>
    /\ heap[RanCell].output.outputs = <<>>
    /\ heap[RanCell].prompt = "In [*]:"

-----------------------------------------------------------------------------
(* Claims about saving with a session.                                     *)

\* The metadata once both replies of the kernel were stored.
RefreshedMetadata == [display_name |-> "d1", name |-> "k1", language_info |-> "l1"]

\* C16: a save() made with a session attached issues no persist request when
\* it is called; a persist request that is not the direct one of a save()
\* made without a live session is issued by the step that receives the
\* kernel-info reply of a save whose kernel-spec reply was received before,
\* and the content it carries has the refreshed display_name, name and
\* language_info in its metadata.
C16_PersistAfterReplies ==
    [][ /\ (lastOp'.op = "save" /\ session = "live") => persisted' = persisted
        /\ (persisted' # persisted /\ lastOp'.op # "save")
              => /\ lastOp'.op = "kernelInfoReply"
                 /\ saves[lastOp'.arg].stage = "kernelinfo"
                 /\ saves'[lastOp'.arg].stage = "persist"
                 /\ persisted' = Append(persisted, Serialize(heap, cells, metadata'))
                 /\ persisted'[Len(persisted')].metadata = RefreshedMetadata ]_vars

\* A save made with a session has just received its kernel-info reply and
\* issued its persist request, the first of the notebook, for a notebook of
\* one cell, with the refreshed metadata.
C16_Witness ==
    /\ lastOp.op = "kernelInfoReply"
    /\ saves[lastOp.arg].stage = "persist"
    /\ lastOp.pre.persists = 0
    /\ Len(persisted) = 1
    /\ Len(persisted[1].cells) = 1
    /\ persisted[1].metadata = RefreshedMetadata

-----------------------------------------------------------------------------
(* Claims about the read-only state.                                       *)

\* C17: after notebook.readOnly is set to true every cell of the list is
\* read-only, and a cell created by createCodeCell, createMarkdownCell or
\* createRawCell while the notebook is read-only is read-only.
C17_ReadOnlyCascade ==
    /\ (lastOp.op = "readOnly" /\ lastOp.arg = TRUE)
          => \A k \in DOMAIN cells : heap[cells[k]].readOnly
    /\ (lastOp.op = "add" /\ readOnly) => heap[cells[Len(cells)]].readOnly

\* A notebook of a code cell and a markdown cell was made read-only, and
\* both cells are read-only.
C17_Witness ==
    /\ lastOp.op = "readOnly"
    /\ lastOp.arg = TRUE
    /\ Len(cells) = 2
    /\ heap[cells[1]].type = "code"
    /\ heap[cells[2]].type = "markdown"
    /\ heap[cells[1]].readOnly
    /\ heap[cells[2]].readOnly

-----------------------------------------------------------------------------
(* Claims about the widgets of the cells.                                  *)

\* C18: after any sequence of cell-list changes the i-th child widget of the
\* cells layout is the widget backed by the model cells[i], for every i: the
\* same order, one widget per model, and no widget for a model that is no
\* longer in the list.
C18_WidgetOrder ==
    /\ Len(children) = Len(cells)
    /\ \A k \in DOMAIN children :
          k \in DOMAIN cells => widgets[children[k]].model = cells[k]

-----------------------------------------------------------------------------
(* Claims about disposal.                                                  *)

\* C19: when removeAt returns the removed cell is disposed and
\* activeCellIndex is min(oldIndex, newLength - 1); when clear returns
\* every cell that was in the list is disposed.
C19_RemovalDisposes ==
    [][ /\ lastOp'.op = "removeAt"
            => LET j == ListNorm(cells, lastOp'.arg)
               IN  /\ heap'[cells[j + 1]].disposed
                   /\ cells' = ListRemoveAt(cells, j)
                   /\ activeCellIndex' = Min(j, Len(cells') - 1)
        /\ lastOp'.op = "clear"
            => /\ cells' = <<>>
               /\ \A k \in DOMAIN cells : heap'[cells[k]].disposed ]_vars

\* The first cell of a list of three was removed: it is disposed, the two
\* cells left are not, and activeCellIndex is 0.
C19_Witness ==
    /\ lastOp.op = "removeAt"
    /\ lastOp.arg = 0
    /\ Len(cells) = 2
    /\ activeCellIndex = 0
    /\ Len(heap) = 3
    /\ \A id \in DOMAIN heap : heap[id].disposed <=> id \notin Range(cells)

\* C20: after NotebookModel.dispose() every cell that was in the list is
\* disposed and isDisposed is true; after OutputAreaModel.dispose() the
\* outputs are cleared and isDisposed is true; a dispose() of a model that is
\* already disposed changes nothing and raises no error.
C20_Dispose ==
    [][ /\ (lastOp'.op = "dispose" /\ lastOp'.pre = isDisposed)
            => /\ isDisposed'
               /\ \A k \in DOMAIN cells : heap'[cells[k]].disposed
               /\ isDisposed
                    => /\ ~lastOp'.threw
                       /\ UNCHANGED <<heap, cells, activeCellIndex, mode,
                                      readOnly, dirty, session, metadata,
                                      widgets, children, executions, saves,
                                      persisted>>
        /\ areaOp'.op = "dispose"
            => /\ area'.disposed
               /\ area'.outputs = <<>>
               /\ area.disposed => area' = area ]_vars

\* A notebook of two cells and an output area holding an output were each
\* disposed twice: both cells are disposed, the list and the outputs are
\* empty.
C20_Witness ==
    /\ lastOp.op = "dispose"
    /\ lastOp.pre = TRUE
    /\ isDisposed
    /\ Len(heap) = 2
    /\ heap[1].disposed /\ heap[2].disposed
    /\ cells = <<>>
    /\ areaOp.op = "dispose"
    /\ areaOp.pre.disposed
    /\ area.disposed
    /\ area.outputs = <<>>

-----------------------------------------------------------------------------
(* Running cells of every variant.  The trusted and rendered flags of a    *)
(* cell are plain properties that the cell's view and its callers write.   *)

\* cell.trusted = value
SetCellTrusted(index, value) ==
    /\ ListCheck(cells, index)
    /\ heap[cells[index + 1]].trusted # value
    /\ heap' = [heap EXCEPT ![cells[index + 1]].trusted = value]
    /\ lastOp' = Op("trusted", index)
    /\ UNCHANGED <<cells, activeCellIndex, mode, readOnly, dirty, session,
                   metadata, widgets, children, executions, saves, persisted,
                   isDisposed, outputAreaVars, documentVars, toolbarVars, editorVars>>

\* cell.rendered = value, on a markdown cell
SetCellRendered(index, value) ==
    /\ ListCheck(cells, index)
    /\ heap[cells[index + 1]].type = "markdown"
    /\ heap[cells[index + 1]].rendered # value
    /\ heap' = [heap EXCEPT ![cells[index + 1]].rendered = value]
    /\ lastOp' = Op("rendered", index)
    /\ UNCHANGED <<cells, activeCellIndex, mode, readOnly, dirty, session,
                   metadata, widgets, children, executions, saves, persisted,
                   isDisposed, outputAreaVars, documentVars, toolbarVars, editorVars>>

RunNext ==
    \/ \E type \in CellTypes : CellsAdd(type)
    \/ \E index \in 0 .. Len(cells) - 1 : EditText(index, <<"x">>)
    \/ \E index \in 0 .. Len(cells) - 1 : SetCellTrusted(index, FALSE)
    \/ \E index \in 0 .. Len(cells) - 1 : SetCellRendered(index, FALSE)
    \/ AttachSession("live")
    \/ \E value \in 0 .. Len(cells) - 1 : SetActive(value)
    \/ Run

SpecRun ==
    Init /\ [][RunNext]_vars

-----------------------------------------------------------------------------

(* The cell factories with a source cell.  The notebook starts with one    *)
(* cell whose flags, tags, format and outputs were set through the cell's  *)
(* own properties; copies of the cells of the list are created by the      *)
(* factories and added, and their text is edited.                          *)

SampleSourceCells ==
    { [CreateCodeCell(<<>>, FALSE, 0) EXCEPT
           !.trusted = t, !.text = <<"x">>, !.tags = <<"t">>,
           !.collapsed = c, !.scrolled = ~r,
           !.output.outputs = << Other("execute_result", <<"r">>),
                                 Stream("stdout", <<"a">>) >>]
        : t \in BOOLEAN, c \in BOOLEAN, r \in BOOLEAN }
    \cup
    { [CreateMarkdownCell(<<>>, FALSE, 0) EXCEPT
           !.trusted = t, !.text = <<"x">>, !.tags = <<"t">>, !.rendered = r]
        : t \in BOOLEAN, r \in BOOLEAN }
    \cup
    { [CreateRawCell(<<>>, FALSE, 0) EXCEPT
           !.trusted = t, !.text = <<"x">>, !.tags = <<"t">>, !.format = "f"]
        : t \in BOOLEAN }

FactoryInit ==
    \E source \in SampleSourceCells :
        LET w == DoCellsAdd(
                     [ heap |-> <<source>>,
                       cells |-> <<>>, activeCellIndex |-> -1,
                       widgets |-> <<>>, children |-> <<>>,
                       executions |-> <<>>, mode |-> "unset",
                       threw |-> FALSE ], 1)
        IN  /\ heap = w.heap
            /\ cells = w.cells
            /\ activeCellIndex = w.activeCellIndex
            /\ widgets = w.widgets
            /\ children = w.children
            /\ executions = <<>>
            /\ mode = "unset"
            /\ readOnly = FALSE
            /\ dirty = FALSE
            /\ session = "none"
            /\ metadata = NoMetadata
            /\ saves = <<>>
            /\ persisted = <<>>
            /\ lastOp = Op("new", 0)
            /\ isDisposed = FALSE

\* model.cells.add(model.create<Type>Cell(model.cells.get(index)))
AddCopy(type, index) ==
    /\ Len(heap) < MaxCells
    /\ ListCheck(cells, index)
    /\ LET w == Alloc(World, CreateCell(heap, readOnly, type, cells[index + 1]))
       IN  Commit(DoCellsAdd(w, Len(w.heap)))
    /\ lastOp' = Op("copy", <<type, index>>)
    /\ UNCHANGED <<readOnly, dirty, session, metadata, saves, persisted,
                   isDisposed, outputAreaVars, documentVars, toolbarVars, editorVars>>

FactoryNext ==
    \/ \E type \in CellTypes : CellsAdd(type)
    \/ \E type \in CellTypes, index \in 0 .. Len(cells) - 1 : AddCopy(type, index)
    \/ \E index \in 0 .. Len(cells) - 1, text \in SampleTexts : EditText(index, text)

InitFactory == OutputAreaInit /\ FactoryInit /\ DocumentInit /\ ToolbarInit /\ EditorInit

SpecFactory ==
    InitFactory /\ [][FactoryNext]_vars

-----------------------------------------------------------------------------

(* Cells reporting a change of their own state while the list is edited.   *)

\* The cell at index emits stateChanged for its property `name`; the
\* notebook hears it if the cell's signal was connected by an Add event.
CellStateChanged(index, name) ==
    /\ ListCheck(cells, index)
    /\ ~heap[cells[index + 1]].disposed
    /\ Commit(IF heap[cells[index + 1]].watched
              THEN OnCellStateChanged(World, cells[index + 1], name)
              ELSE World)
    /\ lastOp' = Op("cellState", <<index, name>>)
    /\ UNCHANGED <<readOnly, dirty, session, metadata, saves, persisted,
                   isDisposed, outputAreaVars, documentVars, toolbarVars, editorVars>>

FocusNext ==
    \/ \E type \in {"code", "markdown"} : CellsAdd(type)
    \/ \E index \in 0 .. Len(cells) : CellsInsert(index, "code")
    \/ \E index \in 0 .. Len(cells) - 1 : CellsRemoveAt(index)
    \/ \E from \in 0 .. Len(cells) - 1, to \in 0 .. Len(cells) - 1 :
          CellsMove(from, to)
    \/ \E index \in 0 .. Len(cells) - 1 : CellsSet(index, "raw")
    \/ \E value \in 0 .. Len(cells) - 1 : SetActive(value)
    \/ \E index \in 0 .. Len(cells) - 1, name \in {"mode", "trusted"} :
          CellStateChanged(index, name)

SpecFocus ==
    Init /\ [][FocusNext]_vars

-----------------------------------------------------------------------------

(* The notebook toolbar.  cut() walks the live list by index and removes   *)
(* cells from it as it goes; each removal runs the list-change handlers,   *)
(* which dispose the removed cell and move the active cell.                *)

\* The body of the loop of cut() from index i on; acc is _cut so far.
RECURSIVE ToolbarCutLoop(_, _, _)
ToolbarCutLoop(w, i, acc) ==
    IF i >= Len(w.cells) THEN [world |-> w, cut |-> acc]
    ELSE LET id == ListGet(w.cells, i)
         IN  IF w.heap[id].selected \/ w.heap[id].active
             THEN ToolbarCutLoop(
                      DoCellsRemoveAt(w, ListIndexOf(w.cells, id)),
                      i + 1, Append(acc, id))
             ELSE ToolbarCutLoop(w, i + 1, acc)

\* NotebookToolbar.cut()
ToolbarCut(w) == ToolbarCutLoop(w, 0, <<>>)

\* The cells of a list that are selected or active.
Marked(hp, list) ==
    { id \in Range(list) : hp[id].selected \/ hp[id].active }

\* cell.selected = value
SetCellSelected(index, value) ==
    /\ ListCheck(cells, index)
    /\ heap[cells[index + 1]].selected # value
    /\ heap' = [heap EXCEPT ![cells[index + 1]].selected = value]
    /\ lastOp' = Op("selected", index)
    /\ UNCHANGED <<cells, activeCellIndex, mode, readOnly, dirty, session,
                   metadata, widgets, children, executions, saves, persisted,
                   isDisposed, outputAreaVars, documentVars, toolbarVars, editorVars>>

\* toolbar.cut()
Cut ==
    /\ LET r == ToolbarCut(World)
       IN  /\ Commit(r.world)
           /\ cut' = r.cut
           /\ copied' = <<>>
    /\ lastOp' = [Op("cut", 0) EXCEPT
                     !.pre = [cells |-> cells, marked |-> Marked(heap, cells)]]
    /\ UNCHANGED <<readOnly, dirty, session, metadata, saves, persisted,
                   isDisposed, outputAreaVars, documentVars, editorVars>>

\* The body of the loop of changeCellType(value) from index i on.
RECURSIVE ToolbarChangeLoop(_, _, _, _)
ToolbarChangeLoop(w, ro, value, i) ==
    IF i >= Len(w.cells) THEN w
    ELSE LET id == ListGet(w.cells, i)
         IN  IF ~w.heap[id].selected /\ ~w.heap[id].active
             THEN ToolbarChangeLoop(w, ro, value, i + 1)
             ELSE LET made == CreateCell(w.heap, ro, value, id)
                      newCell == IF value = "markdown"
                                 THEN [made EXCEPT !.rendered = FALSE]
                                 ELSE made
                      w1 == Alloc(w, newCell)
                      w2 == DoCellsRemoveAt(w1, ListIndexOf(w1.cells, id))
                      w3 == DoCellsInsert(w2, i, Len(w1.heap))
                 IN  ToolbarChangeLoop(w3, ro, value, i + 1)

\* NotebookToolbar.changeCellType(value)
ToolbarChangeCellType(w, ro, value) == ToolbarChangeLoop(w, ro, value, 0)

\* toolbar.changeCellType(value)
ChangeCellType(value) ==
    /\ LET w == ToolbarChangeCellType(World, readOnly, value)
       IN  /\ Len(w.heap) <= MaxToolbarCells
           /\ Len(w.widgets) <= MaxWidgets
           /\ Commit(w)
    /\ lastOp' = [Op("changeCellType", value) EXCEPT
                     !.pre = [cells |-> cells, marked |-> Marked(heap, cells)]]
    /\ UNCHANGED <<readOnly, dirty, session, metadata, saves, persisted,
                   isDisposed, outputAreaVars, documentVars, toolbarVars, editorVars>>

\* paste(): the loop over the cells found at the copied indices; 0 stands
\* for the `undefined` that cells.get returns for an index past the end,
\* and reading its type throws.
RECURSIVE ToolbarPasteCopies(_, _, _, _)
ToolbarPasteCopies(w, ro, index, existing) ==
    IF existing = <<>> THEN w
    ELSE IF Head(existing) = 0 THEN [w EXCEPT !.threw = TRUE]
    ELSE LET src == Head(existing)
             w1 == Alloc(w, CreateCell(w.heap, ro, w.heap[src].type, src))
         IN  ToolbarPasteCopies(DoCellsInsert(w1, index, Len(w1.heap)),
                                ro, index, Tail(existing))

\* paste(): the loop that inserts the cut cells themselves.
RECURSIVE ToolbarPasteCut(_, _, _)
ToolbarPasteCut(w, index, ids) ==
    IF ids = <<>> THEN w
    ELSE ToolbarPasteCut(DoCellsInsert(w, index, Head(ids)), index, Tail(ids))

\* NotebookToolbar.paste(): index is read once, before the loops.
ToolbarPaste(w, ro, cutCells, copiedIndices) ==
    LET index == w.activeCellIndex + 1
    IN  IF Len(copiedIndices) > 0
        THEN ToolbarPasteCopies(w, ro, index,
                 [k \in DOMAIN copiedIndices |->
                     IF ListHas(w.cells, copiedIndices[k])
                     THEN ListGet(w.cells, copiedIndices[k]) ELSE 0])
        ELSE ToolbarPasteCut(w, index, cutCells)

\* toolbar.copy(): _copied receives the indices; each entry also keeps, as
\* history that paste never reads, the cell that was at the index.
Copy ==
    /\ copied' = SelectSeq([k \in DOMAIN cells |->
                                [index |-> k - 1, cell |-> cells[k]]],
                           LAMBDA c : c.cell \in Marked(heap, cells))
    /\ cut' = <<>>
    /\ lastOp' = [Op("copy()", 0) EXCEPT
                     !.pre = [cells |-> cells, marked |-> Marked(heap, cells)]]
    /\ UNCHANGED <<heap, cells, activeCellIndex, mode, readOnly, dirty,
                   session, metadata, widgets, children, executions, saves,
                   persisted, isDisposed, outputAreaVars, documentVars, editorVars>>

\* toolbar.paste(); an exception leaves the clipboards as they were.
Paste ==
    /\ LET w == ToolbarPaste(World, readOnly, cut,
                          [k \in DOMAIN copied |-> copied[k].index])
       IN  /\ Len(w.heap) <= MaxToolbarCells
           /\ Len(w.widgets) <= MaxWidgets
           /\ Commit(w)
           /\ cut' = IF w.threw THEN cut ELSE <<>>
           /\ copied' = IF w.threw THEN copied ELSE <<>>
           /\ lastOp' = [Op("paste", 0) EXCEPT
                            !.threw = w.threw,
                            !.pre = [cells |-> cells,
                                     activeCellIndex |-> activeCellIndex,
                                     cut |-> cut, copied |-> copied]]
    /\ UNCHANGED <<readOnly, dirty, session, metadata, saves, persisted,
                   isDisposed, outputAreaVars, documentVars, editorVars>>

ToolbarNext ==
    \/ \E type \in {"code", "markdown"} : CellsAdd(type)
    \/ \E index \in 0 .. Len(cells) - 1, value \in BOOLEAN :
          SetCellSelected(index, value)
    \/ \E value \in 0 .. Len(cells) - 1 : SetActive(value)
    \/ Cut
    \/ \E value \in {"markdown", "raw"} : ChangeCellType(value)

SpecToolbar ==
    Init /\ [][ToolbarNext]_vars

\* toolbar.insertAbove(), on a notebook that has an active cell
InsertAbove ==
    /\ ListCheck(cells, activeCellIndex)
    /\ Len(heap) < MaxToolbarCells
    /\ Len(widgets) < MaxWidgets
    /\ LET w == Alloc(World, CreateCodeCell(heap, readOnly, 0))
       IN  Commit(DoCellsInsert(w, w.activeCellIndex, Len(w.heap)))
    /\ lastOp' = Op("insertAbove", 0)
    /\ UNCHANGED <<readOnly, dirty, session, metadata, saves, persisted,
                   isDisposed, outputAreaVars, documentVars, toolbarVars, editorVars>>

ClipboardNext ==
    \/ CellsAdd("code")
    \/ InsertAbove
    \/ \E index \in 0 .. Len(cells) - 1 : SetCellSelected(index, TRUE)
    \/ \E value \in 0 .. Len(cells) - 1 : SetActive(value)
    \/ SetReadOnly(TRUE)
    \/ Cut
    \/ Copy
    \/ Paste

SpecClipboard ==
    Init /\ [][ClipboardNext]_vars

-----------------------------------------------------------------------------

(* Kernel messages that arrive after their cell is gone: cells are run,    *)
(* removed from the list or disposed with the notebook, and the kernel     *)
(* goes on delivering.                                                     *)

LateNext ==
    \/ Run
    \/ \E index \in 0 .. Len(cells) - 1 : CellsRemoveAt(index)
    \/ Dispose
    \/ \E e \in DOMAIN executions,
          msg \in { Message("stream", TRUE, "stdout", <<"a">>),
                    Message("shutdown_reply", FALSE, "", <<>>) } :
          DeliverIOPub(e, msg)

SpecLate ==
    InitExec /\ [][LateNext]_vars

-----------------------------------------------------------------------------

(* Claims about runActiveCell.                                             *)

\* C21: runActiveCell on a notebook that is read-only or has no active cell
\* changes nothing: the cell list, activeCellIndex, mode and every cell
\* (its trusted and rendered flags and its outputs among the rest) are as
\* they were and no execute request is sent.
C21_RunNoOp ==
    [][ (lastOp'.op = "run" /\ (readOnly \/ ~ListHas(cells, activeCellIndex)))
          => /\ cells' = cells
             /\ activeCellIndex' = activeCellIndex
             /\ mode' = mode
             /\ heap' = heap
             /\ executions' = executions ]_vars

\* A read-only notebook of two cells, its active cell a code cell holding
\* 'x', with a session: runActiveCell left the list, the index and the
\* prompt as they were and sent nothing.
C21_Witness ==
    /\ lastOp.op = "run"
    /\ readOnly
    /\ session = "live"
    /\ Len(cells) = 2
    /\ lastOp.pre.cells = cells
    /\ lastOp.pre.activeCellIndex = activeCellIndex
    /\ activeCellIndex = 0
    /\ heap[cells[1]].type = "code"
    /\ heap[cells[1]].text = <<"x">>
    /\ heap[cells[1]].prompt = ""
    /\ executions = <<>>

\* The cell that a runActiveCell step acts on: the one at the index that was
\* active before the step.
RunTarget ==
    cells[activeCellIndex + 1]

\* C22: runActiveCell dispatches on the variant of the active cell.  On a
\* markdown cell it leaves trusted and rendered both true and sends no
\* execute request; on a raw cell it sets trusted and leaves every other
\* field of the cell but its active flag alone, and sends no execute
\* request; a step that sends an execute request had a code cell active.
C22_RunDispatch ==
    [][ lastOp'.op = "run"
          => /\ (~readOnly /\ ListHas(cells, activeCellIndex)
                    /\ heap[RunTarget].type = "markdown")
                  => /\ heap'[RunTarget] =
                            [heap[RunTarget] EXCEPT
                                !.trusted = TRUE, !.rendered = TRUE,
                                !.active = heap'[RunTarget].active]
                     /\ executions' = executions
             /\ (~readOnly /\ ListHas(cells, activeCellIndex)
                    /\ heap[RunTarget].type = "raw")
                  => /\ heap'[RunTarget] =
                            [heap[RunTarget] EXCEPT
                                !.trusted = TRUE,
                                !.active = heap'[RunTarget].active]
                     /\ executions' = executions
             /\ executions' # executions
                  => /\ ListHas(cells, activeCellIndex)
                     /\ heap[RunTarget].type = "code" ]_vars

\* runActiveCell acted on a markdown cell, now trusted and rendered, while a
\* raw cell and a code cell holding 'x' wait behind it and a session is
\* attached: nothing was sent.
C22_Witness ==
    /\ lastOp.op = "run"
    /\ ~readOnly
    /\ session = "live"
    /\ Len(lastOp.pre.cells) = 3
    /\ lastOp.pre.activeCellIndex = 0
    /\ activeCellIndex = 1
    /\ heap[cells[1]].type = "markdown"
    /\ heap[cells[1]].trusted
    /\ heap[cells[1]].rendered
    /\ heap[cells[2]].type = "raw"
    /\ ~heap[cells[2]].trusted
    /\ heap[cells[3]].type = "code"
    /\ heap[cells[3]].text = <<"x">>
    /\ executions = <<>>

-----------------------------------------------------------------------------
(* Claims about the reply to an execute request.                           *)

\* C23: the final-reply handler sets executionCount whatever its order among
\* the I/O messages of its execution.  For an execution that is the only
\* one of its cell and whose reply has arrived (the reply to execution e
\* carries execution_count e), the cell's executionCount is that count and
\* its output list is the list the delivered I/O messages alone produce,
\* the list it would show had the reply come last.
C23_ReplyAnyOrder ==
    \A e \in DOMAIN executions :
        (executions[e].replied /\ ~Rerun(e)
            /\ ~heap[executions[e].cell].disposed)
            => /\ heap[executions[e].cell].executionCount = e
               /\ heap[executions[e].cell].output.outputs =
                      FoldLeft(AddMessage, NewOutputArea,
                               executions[e].delivered).outputs

\* The reply arrived between the two I/O messages of the execution (the
\* last step delivered the second message to an execution already replied
\* to): the count is set and both outputs are listed.
C23_Witness ==
    /\ lastOp.op = "iopub"
    /\ Len(executions) = 1
    /\ lastOp.arg[1] = 1
    /\ executions[1].replied
    /\ executions[1].delivered =
           << Message("execute_result", TRUE, "", <<"r">>),
              Message("stream", TRUE, "stdout", <<"a">>) >>
    /\ heap[executions[1].cell].executionCount = 1
    /\ heap[executions[1].cell].output.outputs =
           << Other("execute_result", <<"r">>), Stream("stdout", <<"a">>) >>

-----------------------------------------------------------------------------
(* Claims about the dirty flag.                                            *)

\* C24: dirty reflects unsaved changes.  A notebook starts with no cells;
\* while nothing has been handed to the contents manager (so no save has
\* succeeded), a notebook that holds a cell differs from what was last
\* saved, and dirty is true.
C24_DirtyReflectsChanges ==
    (cells # <<>> /\ persisted = <<>>) => dirty

\* C25: a cell made by createCodeCell, createMarkdownCell or createRawCell
\* marks the notebook dirty when its text changes later: after a text edit
\* of a cell of the list dirty is true.  Creating a cell from a source cell,
\* which copies the source's text into the new editor, leaves dirty as it
\* was.
C25_EditMarksDirty ==
    [][ /\ lastOp'.op = "edit" => dirty'
        /\ lastOp'.op \in {"add", "copy"} => dirty' = dirty ]_vars

\* A raw cell was created from a source holding 'x' and added as the second
\* cell while dirty stayed false (no other edit was made: the first cell
\* still holds 'x'); its text was then changed, and dirty is true.
C25_Witness ==
    /\ lastOp.op = "edit"
    /\ lastOp.arg = 1
    /\ Len(cells) = 2
    /\ heap[cells[1]].text = <<"x">>
    /\ heap[cells[1]].tags = <<"t">>
    /\ heap[cells[2]].type = "raw"
    /\ heap[cells[2]].tags = <<"t">>
    /\ heap[cells[2]].text = <<" ">>
    /\ dirty

-----------------------------------------------------------------------------
(* Claims about the active cell.                                           *)

\* C26: the activeCellIndex setter clamps.  On a notebook of at least one
\* cell, after activeCellIndex = v the stored index is
\* min(max(v, 0), length - 1), and after every set, also one to the value
\* already stored, cell i is active exactly when i is the stored index.
C26_SetterClamps ==
    [][ (lastOp'.op = "setActive" /\ Len(cells) >= 1)
          => /\ cells' = cells
             /\ activeCellIndex' = Min(Max(lastOp'.arg, 0), Len(cells) - 1)
             /\ \A k \in DOMAIN cells :
                   heap'[cells[k]].active = (k - 1 = activeCellIndex') ]_vars

\* activeCellIndex = 3 on a notebook of three cells: the index is clamped to
\* 2 and the third cell alone is active.
C26_Witness ==
    /\ lastOp.op = "setActive"
    /\ Len(cells) = 3
    /\ lastOp.arg = 3
    /\ activeCellIndex = 2
    /\ heap[cells[3]].active
    /\ ~heap[cells[1]].active
    /\ ~heap[cells[2]].active

-----------------------------------------------------------------------------
(* Claims about the widgets of the cells.                                  *)

\* C27: no needless widget rebuild.  An Add event (cells.add, cells.insert)
\* constructs exactly one widget, for the added cell, and disposes none; a
\* Move event constructs and disposes no widget and the widget that was at
\* the old index is at the new index; a Remove event disposes exactly the
\* widget that was at the old index, takes it out of the layout and
\* constructs none.
C27_NoRebuild ==
    [][ /\ lastOp'.op \in {"add", "insert"}
          => /\ Len(widgets') = Len(widgets) + 1
             /\ \A i \in DOMAIN widgets : widgets'[i] = widgets[i]
             /\ ~widgets'[Len(widgets')].disposed
             /\ widgets'[Len(widgets')].model = Len(heap')
        /\ lastOp'.op = "move"
          => /\ widgets' = widgets
             /\ children'[lastOp'.arg[2] + 1] = children[lastOp'.arg[1] + 1]
             /\ Range(children') = Range(children)
        /\ lastOp'.op = "removeAt"
          => LET j == ListNorm(cells, lastOp'.arg)
             IN  /\ widgets' = [widgets EXCEPT ![children[j + 1]].disposed = TRUE]
                 /\ children' = ListRemoveAt(children, j) ]_vars

\* cells.move(0, 2) on a notebook of three cells: still three widgets, none
\* disposed, and the widget built first, for the cell that moved, is the
\* last child.
C27_Witness ==
    /\ lastOp.op = "move"
    /\ lastOp.arg = <<0, 2>>
    /\ Len(cells) = 3
    /\ Len(widgets) = 3
    /\ \A i \in DOMAIN widgets : ~widgets[i].disposed
    /\ children = <<2, 3, 1>>
    /\ widgets[1].model = cells[3]

-----------------------------------------------------------------------------
(* Claims about the cell factories.                                        *)

\* The cell the last step created, and the source it was created from.
CopyMade == heap'[Len(heap')]

CopySource == heap[cells[lastOp'.arg[2] + 1]]

\* C28: factory cloning.  A cell created from a source cell has the
\* source's trusted flag, input text and tags.  When the source is of the
\* variant being created the variant's own fields are cloned: collapsed,
\* scrolled and the outputs in order for a code cell, rendered for a
\* markdown cell, format for a raw cell.  Otherwise these fields have their
\* defaults.  A cell created without a source is trusted.
C28_FactoryCloning ==
    [][ /\ lastOp'.op = "copy"
          => /\ CopyMade.type = lastOp'.arg[1]
             /\ CopyMade.trusted = CopySource.trusted
             /\ CopyMade.text = CopySource.text
             /\ CopyMade.tags = CopySource.tags
             /\ LET same == CopySource.type = CopyMade.type
                    from == IF same THEN CopySource
                            ELSE DefaultCell(CopyMade.type, FALSE)
                IN  /\ CopyMade.collapsed = from.collapsed
                    /\ CopyMade.scrolled = from.scrolled
                    /\ CopyMade.output.outputs = from.output.outputs
                    /\ CopyMade.rendered = from.rendered
                    /\ CopyMade.format = from.format
        /\ lastOp'.op = "add"
          => /\ CopyMade.type = lastOp'.arg
             /\ CopyMade.trusted
             /\ CopyMade.text = <<>> ]_vars

\* A code cell was created from an untrusted, collapsed code cell with two
\* outputs, and a markdown cell was then created from that copy: the code
\* copy has the flags and the outputs of its source, the markdown copy has
\* the text, the tags and the trusted flag only.
C28_Witness ==
    /\ lastOp.op = "copy"
    /\ lastOp.arg = <<"markdown", 1>>
    /\ Len(cells) = 3
    /\ heap[cells[1]].type = "code"
    /\ ~heap[cells[1]].trusted
    /\ heap[cells[1]].collapsed
    /\ heap[cells[2]].type = "code"
    /\ ~heap[cells[2]].trusted
    /\ heap[cells[2]].collapsed
    /\ heap[cells[2]].output.outputs =
           << Other("execute_result", <<"r">>), Stream("stdout", <<"a">>) >>
    /\ heap[cells[3]].type = "markdown"
    /\ ~heap[cells[3]].trusted
    /\ heap[cells[3]].text = <<"x">>
    /\ heap[cells[3]].tags = <<"t">>
    /\ heap[cells[3]].rendered
    /\ heap[cells[3]].output.outputs = <<>>

\* C29: focus follows the edited cell.  When a cell of the list whose
\* stateChanged signal the notebook connected on its Add event reports a
\* change of its mode, activeCellIndex becomes the cell's current index and
\* the cell is the only active one.
C29_FocusFollowsMode ==
    [][ (/\ lastOp'.op = "cellState"
         /\ lastOp'.arg[2] = "mode"
         /\ heap[cells[lastOp'.arg[1] + 1]].watched)
          => /\ cells' = cells
             /\ activeCellIndex' = lastOp'.arg[1]
             /\ \A k \in DOMAIN cells :
                   heap'[cells[k]].active = (k - 1 = lastOp'.arg[1]) ]_vars

\* Three cells were added and the first was moved to the end, where it
\* reported a mode change: the index follows it to 2 and it alone is active.
C29_Witness ==
    /\ lastOp.op = "cellState"
    /\ lastOp.arg = <<2, "mode">>
    /\ cells = <<2, 3, 1>>
    /\ \A k \in DOMAIN cells : heap[cells[k]].watched
    /\ activeCellIndex = 2
    /\ heap[1].active
    /\ ~heap[2].active
    /\ ~heap[3].active

-----------------------------------------------------------------------------
(* Claims about the toolbar.                                               *)

\* C30: cut() removes from the notebook exactly the cells that were
\* selected or active when it was called and keeps exactly those cells, in
\* list order, as the cut clipboard; the other cells stay in the list in
\* their original order.
C30_CutExact ==
    lastOp.op = "cut"
        => LET WasMarked(id) == id \in lastOp.pre.marked
               WasNotMarked(id) == id \notin lastOp.pre.marked
           IN  /\ cut = SelectSeq(lastOp.pre.cells, WasMarked)
               /\ cells = SelectSeq(lastOp.pre.cells, WasNotMarked)

\* C31: changeCellType(value) replaces every cell that was selected or
\* active when it was called by a new cell of type value at the same index,
\* with the old cell's text, tags and trusted flag; the length of the list
\* and every other cell stay as they were.  (Cells are never edited after
\* they leave the list, so the old cell's record still shows its fields.)
C31_ChangeCellType ==
    lastOp.op = "changeCellType"
        => /\ Len(cells) = Len(lastOp.pre.cells)
           /\ \A k \in DOMAIN cells :
                 LET old == lastOp.pre.cells[k]
                 IN  IF old \in lastOp.pre.marked
                     THEN /\ cells[k] \notin Range(lastOp.pre.cells)
                          /\ heap[cells[k]].type = lastOp.arg
                          /\ heap[cells[k]].text = heap[old].text
                          /\ heap[cells[k]].tags = heap[old].tags
                          /\ heap[cells[k]].trusted = heap[old].trusted
                     ELSE cells[k] = old

\* C32: no cell of the live list is disposed, whatever toolbar operations
\* were performed.
C32_NoDisposedInList ==
    \A k \in DOMAIN cells : ~heap[cells[k]].disposed

-----------------------------------------------------------------------------
(* Claims about late kernel messages.                                      *)

\* C33: an I/O message delivered for an execution whose cell has been
\* disposed (removed from the list, or disposed with the notebook) is
\* handled without raising an error.
C33_LateMessageHarmless ==
    (lastOp.op = "iopub" /\ heap[executions[lastOp.arg[1]].cell].disposed)
        => ~lastOp.threw

-----------------------------------------------------------------------------
(* Claims about saving while the notebook is edited.                       *)

\* C34: a cell's text edited after save() has serialized the notebook and
\* before the persist request resolves is not reported as saved.  When a
\* persist request has just resolved and every document that was handed to
\* the contents manager has the notebook's number of cells but not their
\* present contents (cells are never removed here, so a text was edited
\* after the last serialization), dirty is true.
C34_EditDuringSave ==
    (/\ lastOp.op = "persistResolve"
     /\ \A k \in DOMAIN persisted :
           /\ Len(persisted[k].cells) = Len(cells)
           /\ persisted[k].cells # Serialize(heap, cells, metadata).cells)
        => dirty

-----------------------------------------------------------------------------
(* Claims about outputs of unknown kind.                                   *)

\* C35: an add of an output of unknown kind never changes the contents of
\* the output list, also when a deferred clear is pending.
C35_UnknownKindKeepsList ==
    (areaOp.op = "add" /\ areaOp.output.output_type \notin KnownOutputTypes)
        => area.outputs = areaOp.pre.outputs

-----------------------------------------------------------------------------
(* Claims about a cell that is executed twice.                             *)

\* C36: when a cell was executed twice and both replies have been
\* delivered, its executionCount is the execution_count of the reply to the
\* later request (the reply to execution e carries execution_count e),
\* whatever the order of the two replies.
C36_LaterReplyWins ==
    \A e \in DOMAIN executions, f \in DOMAIN executions :
        (/\ e < f
         /\ executions[e].cell = executions[f].cell
         /\ executions[e].replied
         /\ executions[f].replied)
            => heap[executions[f].cell].executionCount = f

-----------------------------------------------------------------------------
(* Claims about the clipboard and the read-only flag.                      *)

\* C37: read-only consistency.  Every cell of the list has readOnly equal
\* to the notebook's readOnly, also a cell that was cut before readOnly was
\* changed and pasted afterwards.
C37_ReadOnlyConsistent ==
    \A k \in DOMAIN cells : heap[cells[k]].readOnly = readOnly

\* C38: paste() after copy() clones exactly the cells that were selected or
\* active when copy() was called, also when the list changed in between.
\* paste() clones the cells it finds at the copied indices: each of them
\* exists and is the cell that was copied, and one clone per copied cell
\* is inserted.
C38_PasteClonesCopied ==
    (lastOp.op = "paste" /\ lastOp.pre.copied # <<>>)
        => /\ ~lastOp.threw
           /\ Len(cells) = Len(lastOp.pre.cells) + Len(lastOp.pre.copied)
           /\ \A k \in DOMAIN lastOp.pre.copied :
                 LET c == lastOp.pre.copied[k]
                 IN  /\ ListCheck(lastOp.pre.cells, c.index)
                     /\ lastOp.pre.cells[c.index + 1] = c.cell

\* C39: paste() inserts the pasted cells as one block right after the cell
\* that was active when it was called, in the order the cells had when they
\* were copied or cut, and leaves both clipboards empty.  The pasted cells
\* are the cut cells themselves or, after a copy, the clones, which are the
\* newest cells of the heap in the order they were made.
C39_PasteBlock ==
    (lastOp.op = "paste" /\ ~lastOp.threw)
        => LET pre == lastOp.pre
               m == Len(pre.copied)
               block == IF m > 0
                        THEN [k \in 1 .. m |-> Len(heap) - m + k]
                        ELSE pre.cut
               at == pre.activeCellIndex + 1
           IN  /\ cells = SubSeq(pre.cells, 1, at) \o block
                              \o SubSeq(pre.cells, at + 1, Len(pre.cells))
               /\ cut = <<>>
               /\ copied = <<>>

-----------------------------------------------------------------------------
(* The CodeMirrorWidget on its own: the model's text is set, the widget is *)
(* attached, detached, shown and hidden, posted update requests are        *)
(* processed, and the user types in the document.                          *)

SampleEditorTexts ==
    { <<>>, <<"a">>, <<"a", LF, "b">>, <<"a", CR, LF, "b">>, <<"a", CR>> }

\* What the user can leave in the document: CodeMirror keeps lines, so the
\* text it returns has no carriage return.
SampleTypedTexts == { <<>>, <<"b">>, <<"a", LF, "b">> }

\* Some code sets the editor model's text.
SetModelText(text) ==
    /\ editor' = [SetText(editor, text) EXCEPT
                     !.last = "text",
                     !.changedUnseen = (editor.changedUnseen
                         \/ (text # editor.text /\ ~IsVisible(editor)))]
    /\ UNCHANGED <<outputAreaVars, notebookVars, documentVars, toolbarVars>>

\* The widget is attached to the DOM: after-attach is sent.
EditorAttach ==
    /\ ~editor.isAttached
    /\ editor' = [OnAfterAttach([editor EXCEPT !.isAttached = TRUE])
                     EXCEPT !.last = "attach"]
    /\ UNCHANGED <<outputAreaVars, notebookVars, documentVars, toolbarVars>>

\* The widget is detached from the DOM.
EditorDetach ==
    /\ editor.isAttached
    /\ editor' = [editor EXCEPT !.isAttached = FALSE, !.last = "detach"]
    /\ UNCHANGED <<outputAreaVars, notebookVars, documentVars, toolbarVars>>

\* The widget is hidden.
EditorHide ==
    /\ ~editor.isHidden
    /\ editor' = [editor EXCEPT !.isHidden = TRUE, !.last = "hide"]
    /\ UNCHANGED <<outputAreaVars, notebookVars, documentVars, toolbarVars>>

\* The widget is shown: after-show is sent when it is attached.
EditorShow ==
    /\ editor.isHidden
    /\ editor' = [(IF editor.isAttached
                   THEN OnAfterShow([editor EXCEPT !.isHidden = FALSE])
                   ELSE [editor EXCEPT !.isHidden = FALSE])
                     EXCEPT !.last = "show"]
    /\ UNCHANGED <<outputAreaVars, notebookVars, documentVars, toolbarVars>>

\* The message loop delivers the posted update-request.
ProcessUpdateRequest ==
    /\ editor.updatePending
    /\ editor' = [OnUpdateRequest([editor EXCEPT !.updatePending = FALSE])
                     EXCEPT !.last = "update",
                            !.changedUnseen = FALSE,
                            !.appliedUnseen = editor.changedUnseen]
    /\ UNCHANGED <<outputAreaVars, notebookVars, documentVars, toolbarVars>>

\* The user edits the document of a visible editor: the change handler runs
\* with an origin other than 'setValue'.
UserInput(text) ==
    /\ IsVisible(editor)
    /\ text # editor.doc
    /\ editor' = [OnDocChange([editor EXCEPT !.doc = text], "+input")
                     EXCEPT !.last = "input"]
    /\ UNCHANGED <<outputAreaVars, notebookVars, documentVars, toolbarVars>>

EditorNext ==
    \/ \E text \in SampleEditorTexts : SetModelText(text)
    \/ EditorAttach
    \/ EditorDetach
    \/ EditorHide
    \/ EditorShow
    \/ ProcessUpdateRequest
    \/ \E text \in SampleTypedTexts : UserInput(text)

SpecEditor ==
    Init /\ [][EditorNext]_vars

\* C40 (as stated): a text change made while the widget is detached or
\* hidden is remembered until an update is requested; once the widget is
\* attached and visible and no update request is pending, the document's text
\* equals the model's text; an update never writes to the model.
C40_DocEqualsModel ==
    /\ [](/\ (editor.doc # editor.text)
                 => (editor.updatePending
                        \/ (editor.needsUpdate /\ ~IsVisible(editor)))
          /\ (IsVisible(editor) /\ ~editor.updatePending)
                 => editor.doc = editor.text)
    /\ [][editor'.last = "update" => editor'.text = editor.text]_vars

\* C40 (amended): the same, with the document holding the model's text with
\* every line ending written as a line feed.
C40_DocFollowsModel ==
    /\ [](/\ (editor.doc # DocSetValue(editor.text))
                 => (editor.updatePending
                        \/ (editor.needsUpdate /\ ~IsVisible(editor)))
          /\ (IsVisible(editor) /\ ~editor.updatePending)
                 => editor.doc = DocSetValue(editor.text))
    /\ [][editor'.last = "update" => editor'.text = editor.text]_vars

\* The text was set while the widget was detached or hidden, and the update
\* that followed the next attach or show has loaded it into the document.
C40_Witness ==
    /\ editor.last = "update"
    /\ editor.appliedUnseen
    /\ IsVisible(editor)
    /\ ~editor.updatePending
    /\ editor.text = <<"a", CR, LF, "b">>
    /\ editor.doc = <<"a", LF, "b">>

====
